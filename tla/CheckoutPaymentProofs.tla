----------------------- MODULE CheckoutPaymentProofs -----------------------
(***************************************************************************)
(* TLAPS proofs about CheckoutPayment, for any number of concurrent        *)
(* handlers, gateway orders and crashes; the last part, that the rows of   *)
(* an online order agree, is about handlers that run one at a time.        *)
(***************************************************************************)
EXTENDS CheckoutPayment, FiniteSetTheorems, TLAPS

(* The merchant's progress and a cancellation write an order status.  Both *)
(* are stated apart because they expand Forward and the CASE expressions.  *)
LEMMA NextStatuses ==
    /\ \A s \in DOMAIN Forward : Forward[s] \in Served
    /\ DOMAIN Forward \subseteq {"PAID"} \cup Served
    /\ \A who : CancelledBy(who) \in Cancelled
<1>1. \A s \in DOMAIN Forward : Forward[s] \in Served /\ s \in {"PAID"} \cup Served
  BY DEF Forward, Served
<1>2. \A who : CancelledBy(who) \in Cancelled
  BY DEF CancelledBy, Cancelled
<1>3. QED
  BY <1>1, <1>2

-----------------------------------------------------------------------------
(* Types.  A handler that advances an order writes the status it chose when *)
(* it read the order, so the invariant must say that this is a status.      *)

TypeInv ==
    /\ TypeOK
    /\ \A a \in Actors : job[a].at = "advance" => job[a].seen \in Served

LEMMA TypeInit == Init => TypeInv
<1> SUFFICES ASSUME Init PROVE TypeInv
  OBVIOUS
<1>1. Idle \in Jobs /\ Idle.at = "idle"
  BY DEF Idle, Job, Jobs, Steps, PaymentStatus
<1>2. job \in [Actors -> Jobs] /\ \A a \in Actors : job[a].at = "idle"
  BY <1>1 DEF Init
<1>3. crashes \in 0..MaxCrashes
  BY BoundsAssumption DEF Init
<1>4. order \in [status : OrderStatus, paid : PaymentStatus,
                 method : PaymentMethod \cup {"NONE"}]
  BY DEF Init, OrderRow, OrderStatus, PaymentStatus
<1>5. pay \in [status : PaymentStatus, rzp : RzpOrders \cup {NoRzp}]
  BY DEF Init, PayRow, PaymentStatus
<1>6. event \in [Events -> {"NONE", "RECEIVED", "PROCESSED"}]
  BY DEF Init
<1>7. /\ offered \subseteq RzpOrders /\ declined \subseteq RzpOrders
      /\ captured \subseteq RzpOrders
  BY DEF Init
<1>8. /\ age \in 0..2 /\ chk \in CheckoutStatus /\ hold \in HoldStatus
      /\ refund \in RefundStatus /\ wallet \in {"untouched", "debited", "refunded"}
  BY DEF Init, CheckoutStatus, HoldStatus, RefundStatus
<1>9. chkOrder \in BOOLEAN /\ linked \in BOOLEAN
  BY DEF Init
<1>10. QED
  BY <1>2, <1>3, <1>4, <1>5, <1>6, <1>7, <1>8, <1>9, Zenon DEF TypeInv, TypeOK

(* Every step keeps the types; one step of the proof per action. *)
LEMMA TypeStep == TypeInv /\ [Next]_vars => TypeInv'
<1> SUFFICES ASSUME TypeInv, [Next]_vars PROVE TypeInv'
  OBVIOUS
<1> USE DEF TypeInv, TypeOK, money, CheckoutStatus, HoldStatus, OrderStatus,
            PaymentStatus, RefundStatus, Jobs, Job, Steps, Idle, OrderRow, PayRow,
            At, Goto, Done
<1>1. ASSUME NEW a \in Workers, CreateCheckout(a) PROVE TypeInv'
  BY <1>1 DEF CreateCheckout, Begin, AllRequests, Actors
<1>2. ASSUME NEW a \in Actors, ReserveInventory(a) PROVE TypeInv'
  BY <1>2 DEF ReserveInventory
<1>3. ASSUME NEW a \in Actors, CreateOrderFromCheckout(a) PROVE TypeInv'
  BY <1>3, MethodsAssumption DEF CreateOrderFromCheckout, Served
<1>4. ASSUME NEW a \in Actors, LinkReservations(a) PROVE TypeInv'
  BY <1>4 DEF LinkReservations
<1>5. ASSUME NEW a \in Actors, MarkReserved(a) PROVE TypeInv'
  BY <1>5 DEF MarkReserved
<1>6. ASSUME NEW a \in Workers, StartPayment(a) PROVE TypeInv'
  BY <1>6 DEF StartPayment, Begin, AllRequests, Actors
<1>7. ASSUME NEW a \in Actors, UpsertPayment(a) PROVE TypeInv'
  BY <1>7 DEF UpsertPayment
<1>8. ASSUME NEW a \in Workers, SyncCheckoutPayment(a) PROVE TypeInv'
  BY <1>8 DEF SyncCheckoutPayment, Begin, AllRequests, Actors
<1>9. ASSUME NEW a \in Actors, ReadPayment(a) PROVE TypeInv'
  BY <1>9 DEF ReadPayment
<1>10. ASSUME NEW a \in Actors, ReplayCompleted(a) PROVE TypeInv'
  BY <1>10 DEF ReplayCompleted
<1>11. ASSUME NEW a \in Actors, FetchOrderPayments(a) PROVE TypeInv'
  BY <1>11 DEF FetchOrderPayments
<1>12. ASSUME NEW a \in Actors, FinalizeOnlinePayment(a) PROVE TypeInv'
  BY <1>12 DEF FinalizeOnlinePayment
<1>13. ASSUME NEW a \in Actors, OrderPaid(a) PROVE TypeInv'
  BY <1>13 DEF OrderPaid, Transition
<1>14. ASSUME NEW a \in Actors, CapturePayment(a) PROVE TypeInv'
  BY <1>14 DEF CapturePayment
<1>15. ASSUME NEW a \in Actors, CompleteCheckout(a) PROVE TypeInv'
  BY <1>15 DEF CompleteCheckout
<1>16. ASSUME NEW a \in Actors, MarkProcessed(a) PROVE TypeInv'
  <2> DEFINE e == <<job[a].req, job[a].id>>
  <2>1. event' = [event EXCEPT ![e] = "PROCESSED"]
    BY <1>16 DEF MarkProcessed
  <2>2. event' \in [Events -> {"NONE", "RECEIVED", "PROCESSED"}]
    <3> HIDE DEF e
    <3>1. QED
      BY <2>1
  <2>3. QED
    BY <1>16, <2>2 DEF MarkProcessed
<1>17. ASSUME NEW a \in Actors, FailPayment(a) PROVE TypeInv'
  BY <1>17 DEF FailPayment
<1>18. ASSUME NEW a \in Actors, FailOrder(a) PROVE TypeInv'
  BY <1>18 DEF FailOrder, Transition, Dead
<1>19. ASSUME NEW a \in Actors, ReleaseReservations(a) PROVE TypeInv'
  BY <1>19 DEF ReleaseReservations, Settle
<1>20. ASSUME NEW a \in Actors, ExpireCheckout(a) PROVE TypeInv'
  BY <1>20 DEF ExpireCheckout
<1>21. ASSUME NEW a \in Actors, ReadPendingOrder(a) PROVE TypeInv'
  BY <1>21 DEF ReadPendingOrder
<1>22. ASSUME NEW a \in Actors, FailPendingPayment(a) PROVE TypeInv'
  BY <1>22 DEF FailPendingPayment
<1>23. ASSUME NEW a \in Actors, ReleaseOrderReservations(a) PROVE TypeInv'
  BY <1>23 DEF ReleaseOrderReservations, Settle
<1>24. ASSUME NEW a \in Actors, ExpireOrder(a) PROVE TypeInv'
  BY <1>24 DEF ExpireOrder, Transition, Dead
<1>25. ASSUME NEW a \in Actors, CancelOrder(a) PROVE TypeInv'
  BY <1>25, NextStatuses DEF CancelOrder, Transition, Cancelled, Dead
<1>26. ASSUME NEW a \in Actors, InitiateRefund(a) PROVE TypeInv'
  BY <1>26 DEF InitiateRefund
<1>27. ASSUME NEW a \in Actors, RefundMoney(a) PROVE TypeInv'
  BY <1>27 DEF RefundMoney, Dead
<1>28. ASSUME NEW a \in Actors, MarkPaymentRefunded(a) PROVE TypeInv'
  BY <1>28 DEF MarkPaymentRefunded
<1>29. ASSUME NEW a \in Workers, AdvanceMerchantOrder(a) PROVE TypeInv'
  BY <1>29, NextStatuses DEF AdvanceMerchantOrder, Begin, AllRequests, Actors
<1>30. ASSUME NEW a \in Actors, WriteAdvance(a) PROVE TypeInv'
  BY <1>30 DEF WriteAdvance, Transition
<1>31. ASSUME NEW a \in Actors, HandleDelivered(a) PROVE TypeInv'
  BY <1>31 DEF HandleDelivered, Transition, Served
<1>32. ASSUME NEW a \in Actors, FulfillOnDelivery(a) PROVE TypeInv'
  BY <1>32 DEF FulfillOnDelivery, Settle
<1>33. ASSUME NEW a \in Actors, FinalizeOrderRewards(a) PROVE TypeInv'
  BY <1>33 DEF FinalizeOrderRewards, Transition, Served
<1>34. ASSUME NEW w \in Workers, NEW id \in RzpOrders, VerifyPayment(w, id) PROVE TypeInv'
  BY <1>34 DEF VerifyPayment, Begin, AllRequests, Actors
<1>35. ASSUME NEW w \in Workers, NEW id \in RzpOrders, HandlePaymentCaptured(w, id)
       PROVE TypeInv'
  BY <1>35 DEF HandlePaymentCaptured, ClaimEvent, Events, Begin, AllRequests, Actors
<1>36. ASSUME NEW w \in Workers, NEW id \in RzpOrders, HandlePaymentFailed(w, id)
       PROVE TypeInv'
  BY <1>36 DEF HandlePaymentFailed, ClaimEvent, Events, Begin, AllRequests, Actors
<1>37. ASSUME NEW w \in Workers, NEW who \in Cancellers, StartCancel(w, who)
       PROVE TypeInv'
  BY <1>37 DEF StartCancel, Cancellers, Begin, AllRequests, Actors
<1>38. ASSUME NEW id \in RzpOrders, DeclineAttempt(id) \/ CaptureAttempt(id)
       PROVE TypeInv'
  BY <1>38 DEF DeclineAttempt, CaptureAttempt
<1>39. ASSUME ReleaseExpiredReservations \/ CancelStalePaymentPendingOrders PROVE TypeInv'
  BY <1>39
    DEF ReleaseExpiredReservations, CancelStalePaymentPendingOrders, Crons, Begin,
        AllRequests, Actors
<1>40. ASSUME ExpireOne \/ RetryFailedRefunds PROVE TypeInv'
  BY <1>40 DEF ExpireOne, RetryFailedRefunds, Crons, Begin, AllRequests, Actors
<1>41. ASSUME Tick PROVE TypeInv'
  BY <1>41 DEF Tick
<1>42. ASSUME NEW a \in Actors, Crash(a) PROVE TypeInv'
  BY <1>42, BoundsAssumption DEF Crash
<1>43. CASE UNCHANGED vars
  BY <1>43 DEF vars
<1>44. QED
  BY <1>1, <1>2, <1>3, <1>4, <1>5, <1>6, <1>7, <1>8, <1>9, <1>10, <1>11,
     <1>12, <1>13, <1>14, <1>15, <1>16, <1>17, <1>18, <1>19, <1>20, <1>21,
     <1>22, <1>23, <1>24, <1>25, <1>26, <1>27, <1>28, <1>29, <1>30, <1>31,
     <1>32, <1>33, <1>34, <1>35, <1>36, <1>37, <1>38, <1>39, <1>40, <1>41,
     <1>42, <1>43 DEF Next, Arrive, Continue, CronTick

(* Every reachable state is well typed. *)
THEOREM TypeCorrect == Spec => []TypeOK
<1>1. TypeInv => TypeOK
  BY DEF TypeInv
<1>2. QED
  BY <1>1, TypeInit, TypeStep, PTL DEF Spec

-----------------------------------------------------------------------------
(* NothingForNothing is not inductive: a handler that has already decided   *)
(* that money came in writes so later, without looking again.  MoneyFirst   *)
(* adds that, until money has come in, no handler has decided so.           *)

MoneySteps == {"replay", "finalize", "paid", "capture", "complete", "refund",
               "money", "payRefunded", "advance", "delivered", "fulfil",
               "completeOrder"}

MoneyFirst ==
    /\ NothingForNothing
    /\ ~Funded => \A a \in Actors : /\ job[a].at \notin MoneySteps
                                    /\ job[a].seen # "PAID"
                                    /\ job[a].req # "verify"

LEMMA MoneyInit == Init => MoneyFirst
<1> SUFFICES ASSUME Init PROVE MoneyFirst
  OBVIOUS
<1>1. Idle.at = "idle" /\ Idle.seen = "NONE" /\ Idle.req = "none"
  BY DEF Idle, Job
<1>2. \A a \in Actors : job[a].at = "idle" /\ job[a].seen = "NONE" /\ job[a].req = "none"
  BY <1>1 DEF Init
<1>3. NothingForNothing
  BY DEF Init, NothingForNothing, OrderRow, PayRow, Served
<1>4. QED
  BY <1>2, <1>3 DEF MoneyFirst, MoneySteps

LEMMA MoneyStep == TypeInv /\ MoneyFirst /\ [Next]_vars => MoneyFirst'
<1> SUFFICES ASSUME TypeInv, MoneyFirst, [Next]_vars PROVE MoneyFirst'
  OBVIOUS
<1> USE DEF TypeInv, TypeOK, MoneyFirst, NothingForNothing, Funded, MoneySteps, Served,
            money, Jobs, Job, Idle, OrderRow, PayRow, At, Goto, Done
<1>1. ASSUME NEW a \in Workers, CreateCheckout(a) PROVE MoneyFirst'
  BY <1>1 DEF CreateCheckout, Begin, AllRequests, Actors
<1>2. ASSUME NEW a \in Actors, ReserveInventory(a) PROVE MoneyFirst'
  BY <1>2 DEF ReserveInventory
<1>3. ASSUME NEW a \in Actors, CreateOrderFromCheckout(a) PROVE MoneyFirst'
  BY <1>3, MethodsAssumption DEF CreateOrderFromCheckout, Served
<1>4. ASSUME NEW a \in Actors, LinkReservations(a) PROVE MoneyFirst'
  BY <1>4 DEF LinkReservations
<1>5. ASSUME NEW a \in Actors, MarkReserved(a) PROVE MoneyFirst'
  BY <1>5 DEF MarkReserved
<1>6. ASSUME NEW a \in Workers, StartPayment(a) PROVE MoneyFirst'
  BY <1>6 DEF StartPayment, Begin, AllRequests, Actors
<1>7. ASSUME NEW a \in Actors, UpsertPayment(a) PROVE MoneyFirst'
  BY <1>7 DEF UpsertPayment
<1>8. ASSUME NEW a \in Workers, SyncCheckoutPayment(a) PROVE MoneyFirst'
  BY <1>8 DEF SyncCheckoutPayment, Begin, AllRequests, Actors
<1>9. ASSUME NEW a \in Actors, ReadPayment(a) PROVE MoneyFirst'
  BY <1>9 DEF ReadPayment
<1>10. ASSUME NEW a \in Actors, ReplayCompleted(a) PROVE MoneyFirst'
  BY <1>10 DEF ReplayCompleted
<1>11. ASSUME NEW a \in Actors, FetchOrderPayments(a) PROVE MoneyFirst'
  BY <1>11 DEF FetchOrderPayments
<1>12. ASSUME NEW a \in Actors, FinalizeOnlinePayment(a) PROVE MoneyFirst'
  BY <1>12 DEF FinalizeOnlinePayment
<1>13. ASSUME NEW a \in Actors, OrderPaid(a) PROVE MoneyFirst'
  BY <1>13 DEF OrderPaid, Transition
<1>14. ASSUME NEW a \in Actors, CapturePayment(a) PROVE MoneyFirst'
  BY <1>14 DEF CapturePayment
<1>15. ASSUME NEW a \in Actors, CompleteCheckout(a) PROVE MoneyFirst'
  BY <1>15 DEF CompleteCheckout
<1>16. ASSUME NEW a \in Actors, MarkProcessed(a) PROVE MoneyFirst'
  BY <1>16 DEF MarkProcessed
<1>17. ASSUME NEW a \in Actors, FailPayment(a) PROVE MoneyFirst'
  BY <1>17 DEF FailPayment
<1>18. ASSUME NEW a \in Actors, FailOrder(a) PROVE MoneyFirst'
  BY <1>18 DEF FailOrder, Transition, Dead
<1>19. ASSUME NEW a \in Actors, ReleaseReservations(a) PROVE MoneyFirst'
  BY <1>19 DEF ReleaseReservations, Settle
<1>20. ASSUME NEW a \in Actors, ExpireCheckout(a) PROVE MoneyFirst'
  BY <1>20 DEF ExpireCheckout
<1>21. ASSUME NEW a \in Actors, ReadPendingOrder(a) PROVE MoneyFirst'
  BY <1>21 DEF ReadPendingOrder
<1>22. ASSUME NEW a \in Actors, FailPendingPayment(a) PROVE MoneyFirst'
  BY <1>22 DEF FailPendingPayment
<1>23. ASSUME NEW a \in Actors, ReleaseOrderReservations(a) PROVE MoneyFirst'
  BY <1>23 DEF ReleaseOrderReservations, Settle
<1>24. ASSUME NEW a \in Actors, ExpireOrder(a) PROVE MoneyFirst'
  BY <1>24 DEF ExpireOrder, Transition, Dead
<1>25. ASSUME NEW a \in Actors, CancelOrder(a) PROVE MoneyFirst'
  BY <1>25, NextStatuses DEF CancelOrder, Transition, Cancelled, Dead
<1>26. ASSUME NEW a \in Actors, InitiateRefund(a) PROVE MoneyFirst'
  BY <1>26 DEF InitiateRefund
<1>27. ASSUME NEW a \in Actors, RefundMoney(a) PROVE MoneyFirst'
  BY <1>27 DEF RefundMoney, Dead
<1>28. ASSUME NEW a \in Actors, MarkPaymentRefunded(a) PROVE MoneyFirst'
  BY <1>28 DEF MarkPaymentRefunded
<1>29. ASSUME NEW a \in Workers, AdvanceMerchantOrder(a) PROVE MoneyFirst'
  BY <1>29, NextStatuses DEF AdvanceMerchantOrder, Begin, AllRequests, Actors
<1>30. ASSUME NEW a \in Actors, WriteAdvance(a) PROVE MoneyFirst'
  BY <1>30 DEF WriteAdvance, Transition
<1>31. ASSUME NEW a \in Actors, HandleDelivered(a) PROVE MoneyFirst'
  BY <1>31 DEF HandleDelivered, Transition, Served
<1>32. ASSUME NEW a \in Actors, FulfillOnDelivery(a) PROVE MoneyFirst'
  BY <1>32 DEF FulfillOnDelivery, Settle
<1>33. ASSUME NEW a \in Actors, FinalizeOrderRewards(a) PROVE MoneyFirst'
  BY <1>33 DEF FinalizeOrderRewards, Transition, Served
<1>34. ASSUME NEW w \in Workers, NEW id \in RzpOrders, VerifyPayment(w, id)
       PROVE MoneyFirst'
  BY <1>34 DEF VerifyPayment, Begin, AllRequests, Actors
<1>35. ASSUME NEW w \in Workers, NEW id \in RzpOrders, HandlePaymentCaptured(w, id)
       PROVE MoneyFirst'
  BY <1>35 DEF HandlePaymentCaptured, ClaimEvent, Events, Begin, AllRequests, Actors
<1>36. ASSUME NEW w \in Workers, NEW id \in RzpOrders, HandlePaymentFailed(w, id)
       PROVE MoneyFirst'
  BY <1>36 DEF HandlePaymentFailed, ClaimEvent, Events, Begin, AllRequests, Actors
<1>37. ASSUME NEW w \in Workers, NEW who \in Cancellers, StartCancel(w, who)
       PROVE MoneyFirst'
  BY <1>37 DEF StartCancel, Cancellers, Begin, AllRequests, Actors
<1>38. ASSUME NEW id \in RzpOrders, DeclineAttempt(id) \/ CaptureAttempt(id)
       PROVE MoneyFirst'
  BY <1>38 DEF DeclineAttempt, CaptureAttempt
<1>39. ASSUME ReleaseExpiredReservations \/ CancelStalePaymentPendingOrders
       PROVE MoneyFirst'
  BY <1>39
    DEF ReleaseExpiredReservations, CancelStalePaymentPendingOrders, Crons, Begin,
        AllRequests, Actors
<1>40. ASSUME ExpireOne \/ RetryFailedRefunds PROVE MoneyFirst'
  BY <1>40 DEF ExpireOne, RetryFailedRefunds, Crons, Begin, AllRequests, Actors
<1>41. ASSUME Tick PROVE MoneyFirst'
  BY <1>41 DEF Tick
<1>42. ASSUME NEW a \in Actors, Crash(a) PROVE MoneyFirst'
  BY <1>42, BoundsAssumption DEF Crash
<1>43. CASE UNCHANGED vars
  BY <1>43 DEF vars
<1>44. QED
  BY <1>1, <1>2, <1>3, <1>4, <1>5, <1>6, <1>7, <1>8, <1>9, <1>10, <1>11,
     <1>12, <1>13, <1>14, <1>15, <1>16, <1>17, <1>18, <1>19, <1>20, <1>21,
     <1>22, <1>23, <1>24, <1>25, <1>26, <1>27, <1>28, <1>29, <1>30, <1>31,
     <1>32, <1>33, <1>34, <1>35, <1>36, <1>37, <1>38, <1>39, <1>40, <1>41,
     <1>42, <1>43 DEF Next, Arrive, Continue, CronTick

(* Nothing is given for nothing, whatever handlers overlap or die. *)
THEOREM NothingIsGivenForNothing == Spec => []NothingForNothing
<1>1. MoneyFirst => NothingForNothing
  BY DEF MoneyFirst
<1>2. QED
  BY <1>1, TypeInit, TypeStep, MoneyInit, MoneyStep, PTL DEF Spec

-----------------------------------------------------------------------------
(* AckedCaptureRecorded speaks of webhooks that are PROCESSED, which a      *)
(* handler writes last.  CaptureFirst adds what holds before: a handler of  *)
(* a captured webhook that is past "capture" has its payment on record, an  *)
(* id that is paid was given out, so it never becomes the payment's again,  *)
(* and a handler fails a payment only for a failed webhook that came in.    *)

Recorded ==
    \/ pay.status \in {"PAID", "REFUNDED"}
    \/ pay.status = "FAILED" /\ \E d \in RzpOrders : event[<<"failed", d>>] # "NONE"

CaptureFirst ==
    /\ captured \subseteq offered
    /\ \A id \in RzpOrders :
          /\ event[<<"captured", id>>] # "NONE" => id \in captured
          /\ event[<<"captured", id>>] = "PROCESSED" /\ pay.rzp = id => Recorded
    /\ \A a \in Actors : job[a].req = "captured" =>
          /\ job[a].id \in captured
          /\ job[a].at \in {"capture", "complete", "paid", "processed"}
          /\ job[a].at # "capture" /\ pay.rzp = job[a].id => Recorded
    /\ \A a \in Actors : job[a].at = "failPayment" =>
          \E d \in RzpOrders : event[<<"failed", d>>] # "NONE"

LEMMA CaptureInit == Init => CaptureFirst
<1> SUFFICES ASSUME Init PROVE CaptureFirst
  OBVIOUS
<1>1. \A a \in Actors : job[a].at = "idle" /\ job[a].req = "none"
  BY DEF Init, Idle, Job
<1>2. \A id \in RzpOrders : event[<<"captured", id>>] = "NONE"
  BY DEF Init, Events
<1>3. QED
  BY <1>1, <1>2 DEF Init, CaptureFirst

LEMMA CaptureStep == TypeInv /\ CaptureFirst /\ [Next]_vars => CaptureFirst'
<1> SUFFICES ASSUME TypeInv, CaptureFirst, [Next]_vars PROVE CaptureFirst'
  OBVIOUS
<1> USE DEF TypeInv, TypeOK, CaptureFirst, Recorded, money, Jobs, Job, Idle, PayRow, At,
            Goto, Done
<1>0. ASSUME NEW a \in Actors, NEW j, job' = [job EXCEPT ![a] = j],
             j.req # "captured", j.at # "failPayment",
             UNCHANGED <<pay, offered, captured, event>>
      PROVE CaptureFirst'
  BY <1>0
<1>1. ASSUME NEW a \in Workers, CreateCheckout(a) PROVE CaptureFirst'
  BY <1>1 DEF CreateCheckout, Begin, AllRequests, Actors
<1>2. ASSUME NEW a \in Actors, ReserveInventory(a) PROVE CaptureFirst'
  BY <1>2 DEF ReserveInventory
<1>3. ASSUME NEW a \in Actors, CreateOrderFromCheckout(a) PROVE CaptureFirst'
  BY <1>3 DEF CreateOrderFromCheckout
<1>4. ASSUME NEW a \in Actors, LinkReservations(a) PROVE CaptureFirst'
  BY <1>4 DEF LinkReservations
<1>5. ASSUME NEW a \in Actors, MarkReserved(a) PROVE CaptureFirst'
  BY <1>5 DEF MarkReserved
<1>6. ASSUME NEW a \in Workers, StartPayment(a) PROVE CaptureFirst'
  BY <1>6 DEF StartPayment, Begin, AllRequests, Actors
<1>7. ASSUME NEW a \in Actors, UpsertPayment(a) PROVE CaptureFirst'
  BY <1>7 DEF UpsertPayment
<1>8. ASSUME NEW a \in Workers, SyncCheckoutPayment(a) PROVE CaptureFirst'
  BY <1>8 DEF SyncCheckoutPayment, Begin, AllRequests, Actors
<1>9. ASSUME NEW a \in Actors, ReadPayment(a) PROVE CaptureFirst'
  <2>1. job[a].req # "captured"
    BY <1>9 DEF ReadPayment
  <2>2. \E j : job' = [job EXCEPT ![a] = j] /\ j.req # "captured" /\ j.at # "failPayment"
    BY <1>9, <2>1 DEF ReadPayment
  <2>3. UNCHANGED <<pay, offered, captured, event>>
    BY <1>9 DEF ReadPayment
  <2>4. QED
    BY <1>0, <2>2, <2>3
<1>10. ASSUME NEW a \in Actors, ReplayCompleted(a) PROVE CaptureFirst'
  BY <1>10 DEF ReplayCompleted
<1>11. ASSUME NEW a \in Actors, FetchOrderPayments(a) PROVE CaptureFirst'
  BY <1>11 DEF FetchOrderPayments
<1>12. ASSUME NEW a \in Actors, FinalizeOnlinePayment(a) PROVE CaptureFirst'
  BY <1>12 DEF FinalizeOnlinePayment
<1>13. ASSUME NEW a \in Actors, OrderPaid(a) PROVE CaptureFirst'
  BY <1>13 DEF OrderPaid, Transition
<1>14. ASSUME NEW a \in Actors, CapturePayment(a) PROVE CaptureFirst'
  BY <1>14 DEF CapturePayment
<1>15. ASSUME NEW a \in Actors, CompleteCheckout(a) PROVE CaptureFirst'
  BY <1>15 DEF CompleteCheckout
<1>16. ASSUME NEW a \in Actors, MarkProcessed(a) PROVE CaptureFirst'
  <2>1. /\ job' = [job EXCEPT ![a] = Idle] /\ job[a].at = "processed"
        /\ UNCHANGED <<pay, offered, captured>>
    BY <1>16 DEF MarkProcessed
  <2>2. \A d \in RzpOrders : event[<<"failed", d>>] # "NONE" => event'[<<"failed", d>>] # "NONE"
    BY <1>16 DEF MarkProcessed, Events
  <2>3. \A id \in RzpOrders :
           \/ event'[<<"captured", id>>] = event[<<"captured", id>>]
           \/ job[a].req = "captured" /\ job[a].id = id
    BY <1>16 DEF MarkProcessed, Events
  <2>4. Recorded => Recorded'
    BY <2>1, <2>2
  <2>5. \A id \in RzpOrders :
           /\ event'[<<"captured", id>>] # "NONE" => id \in captured'
           /\ event'[<<"captured", id>>] = "PROCESSED" /\ pay'.rzp = id => Recorded'
    <3> HIDE DEF Recorded, TypeInv
    <3>1. CaptureFirst
      OBVIOUS
    <3>2. QED
      BY <2>1, <2>3, <2>4, <3>1
  <2>6. \A b \in Actors : job'[b] = job[b] \/ job'[b] = Idle
    BY <2>1
  <2>7. QED
    BY <2>1, <2>2, <2>4, <2>5, <2>6
<1>17. ASSUME NEW a \in Actors, FailPayment(a) PROVE CaptureFirst'
  BY <1>17 DEF FailPayment
<1>18. ASSUME NEW a \in Actors, FailOrder(a) PROVE CaptureFirst'
  BY <1>18 DEF FailOrder, Transition, Dead
<1>19. ASSUME NEW a \in Actors, ReleaseReservations(a) PROVE CaptureFirst'
  BY <1>19 DEF ReleaseReservations, Settle
<1>20. ASSUME NEW a \in Actors, ExpireCheckout(a) PROVE CaptureFirst'
  BY <1>20 DEF ExpireCheckout
<1>21. ASSUME NEW a \in Actors, ReadPendingOrder(a) PROVE CaptureFirst'
  BY <1>21 DEF ReadPendingOrder
<1>22. ASSUME NEW a \in Actors, FailPendingPayment(a) PROVE CaptureFirst'
  BY <1>22 DEF FailPendingPayment
<1>23. ASSUME NEW a \in Actors, ReleaseOrderReservations(a) PROVE CaptureFirst'
  BY <1>23 DEF ReleaseOrderReservations, Settle
<1>24. ASSUME NEW a \in Actors, ExpireOrder(a) PROVE CaptureFirst'
  BY <1>24 DEF ExpireOrder, Transition, Dead
<1>25. ASSUME NEW a \in Actors, CancelOrder(a) PROVE CaptureFirst'
  BY <1>25 DEF CancelOrder, Transition, Cancelled, Dead
<1>26. ASSUME NEW a \in Actors, InitiateRefund(a) PROVE CaptureFirst'
  <2>1. job[a].req # "captured"
    BY <1>26 DEF InitiateRefund
  <2>2. \E j : job' = [job EXCEPT ![a] = j] /\ j.req # "captured" /\ j.at # "failPayment"
    BY <1>26, <2>1 DEF InitiateRefund
  <2>3. UNCHANGED <<pay, offered, captured, event>>
    BY <1>26 DEF InitiateRefund
  <2>4. QED
    BY <1>0, <2>2, <2>3
<1>27. ASSUME NEW a \in Actors, RefundMoney(a) PROVE CaptureFirst'
  BY <1>27 DEF RefundMoney, Dead
<1>28. ASSUME NEW a \in Actors, MarkPaymentRefunded(a) PROVE CaptureFirst'
  BY <1>28 DEF MarkPaymentRefunded
<1>29. ASSUME NEW a \in Workers, AdvanceMerchantOrder(a) PROVE CaptureFirst'
  BY <1>29 DEF AdvanceMerchantOrder, Begin, AllRequests, Actors
<1>30. ASSUME NEW a \in Actors, WriteAdvance(a) PROVE CaptureFirst'
  <2>1. job[a].req # "captured"
    BY <1>30 DEF WriteAdvance
  <2>2. \E j : job' = [job EXCEPT ![a] = j] /\ j.req # "captured" /\ j.at # "failPayment"
    BY <1>30, <2>1 DEF WriteAdvance
  <2>3. UNCHANGED <<pay, offered, captured, event>>
    BY <1>30 DEF WriteAdvance
  <2>4. QED
    BY <1>0, <2>2, <2>3
<1>31. ASSUME NEW a \in Actors, HandleDelivered(a) PROVE CaptureFirst'
  <2>1. job[a].req # "captured"
    BY <1>31 DEF HandleDelivered
  <2>2. \E j : job' = [job EXCEPT ![a] = j] /\ j.req # "captured" /\ j.at # "failPayment"
    BY <1>31, <2>1 DEF HandleDelivered
  <2>3. UNCHANGED <<pay, offered, captured, event>>
    BY <1>31 DEF HandleDelivered
  <2>4. QED
    BY <1>0, <2>2, <2>3
<1>32. ASSUME NEW a \in Actors, FulfillOnDelivery(a) PROVE CaptureFirst'
  BY <1>32 DEF FulfillOnDelivery, Settle
<1>33. ASSUME NEW a \in Actors, FinalizeOrderRewards(a) PROVE CaptureFirst'
  BY <1>33 DEF FinalizeOrderRewards, Transition, Served
<1>34. ASSUME NEW w \in Workers, NEW id \in RzpOrders, VerifyPayment(w, id)
       PROVE CaptureFirst'
  BY <1>34 DEF VerifyPayment, Begin, AllRequests, Actors
<1>35. ASSUME NEW w \in Workers, NEW id \in RzpOrders, HandlePaymentCaptured(w, id)
       PROVE CaptureFirst'
  <2>1. /\ id \in captured /\ UNCHANGED <<pay, offered, captured>>
        /\ event[<<"captured", id>>] # "PROCESSED"
        /\ event' = [event EXCEPT ![<<"captured", id>>] = "RECEIVED"]
    BY <1>35 DEF HandlePaymentCaptured, ClaimEvent
  <2>2. PICK at \in {"capture", "processed"} :
           /\ job' = [job EXCEPT ![w] = Job("captured", at, id, "NONE")]
           /\ at = "processed" => pay.rzp # id \/ pay.status = "PAID"
    BY <1>35 DEF HandlePaymentCaptured, ClaimEvent, Begin
  <2>3. \A d \in RzpOrders :
           /\ event'[<<"failed", d>>] = event[<<"failed", d>>]
           /\ event'[<<"captured", d>>] = IF d = id THEN "RECEIVED"
                                          ELSE event[<<"captured", d>>]
    BY <2>1 DEF Events
  <2>4. Recorded' <=> Recorded
    BY <2>1, <2>3
  <2>5. \A d \in RzpOrders :
           /\ event'[<<"captured", d>>] # "NONE" => d \in captured'
           /\ event'[<<"captured", d>>] = "PROCESSED" /\ pay'.rzp = d => Recorded'
    <3> HIDE DEF Recorded, TypeInv
    <3>1. CaptureFirst
      OBVIOUS
    <3> TAKE d \in RzpOrders
    <3>2. CASE d = id
      BY <2>1, <2>3, <3>2
    <3>3. CASE d # id
      <4>1. event'[<<"captured", d>>] = event[<<"captured", d>>]
        BY <2>3, <3>3
      <4>2. QED
        BY <2>1, <2>4, <3>1, <4>1
    <3>4. QED
      BY <3>2, <3>3
  <2>6. w \in Actors /\ \A b \in Actors : b # w => job'[b] = job[b]
    BY <2>2 DEF Actors
  <2>7. /\ job'[w].req = "captured" /\ job'[w].id = id /\ job'[w].at = at
        /\ at = "processed" /\ pay'.rzp = id => Recorded'
    BY <2>1, <2>2, <2>6
  <2>8. \A b \in Actors : job'[b].req = "captured" =>
           /\ job'[b].id \in captured'
           /\ job'[b].at \in {"capture", "complete", "paid", "processed"}
           /\ job'[b].at # "capture" /\ pay'.rzp = job'[b].id => Recorded'
    <3> HIDE DEF Recorded
    <3>1. QED
      BY <2>1, <2>4, <2>6, <2>7
  <2>9. \A b \in Actors : job'[b].at = "failPayment" =>
           \E d \in RzpOrders : event'[<<"failed", d>>] # "NONE"
    <3>1. job'[w].at # "failPayment"
      BY <2>2, <2>7
    <3>2. QED
      BY <2>3, <2>6, <3>1
  <2>10. QED
    BY <2>1, <2>5, <2>8, <2>9
<1>36. ASSUME NEW w \in Workers, NEW id \in RzpOrders, HandlePaymentFailed(w, id)
       PROVE CaptureFirst'
  BY <1>36 DEF HandlePaymentFailed, ClaimEvent, Events, Begin, AllRequests, Actors
<1>37. ASSUME NEW w \in Workers, NEW who \in Cancellers, StartCancel(w, who)
       PROVE CaptureFirst'
  BY <1>37 DEF StartCancel, Cancellers, Begin, AllRequests, Actors
<1>38. ASSUME NEW id \in RzpOrders, DeclineAttempt(id) \/ CaptureAttempt(id)
       PROVE CaptureFirst'
  <2>1. CASE DeclineAttempt(id)
    BY <2>1 DEF DeclineAttempt
  <2>2. CASE CaptureAttempt(id)
    <3>1. /\ captured' = captured \cup {id} /\ id \in offered
          /\ UNCHANGED <<pay, offered, event, job>>
      BY <2>2 DEF CaptureAttempt
    <3>2. Recorded' <=> Recorded
      BY <3>1
    <3>3. QED
      <4> HIDE DEF Recorded
      <4>1. QED
        BY <3>1, <3>2
  <2>3. QED
    BY <1>38, <2>1, <2>2
<1>39. ASSUME ReleaseExpiredReservations \/ CancelStalePaymentPendingOrders
       PROVE CaptureFirst'
  BY <1>39
    DEF ReleaseExpiredReservations, CancelStalePaymentPendingOrders, Crons, Begin,
        AllRequests, Actors
<1>40. ASSUME ExpireOne \/ RetryFailedRefunds PROVE CaptureFirst'
  <2>1. \E a \in Actors : \E j :
           /\ job' = [job EXCEPT ![a] = j]
           /\ j.req # "captured" /\ j.at # "failPayment"
    BY <1>40 DEF ExpireOne, RetryFailedRefunds, Crons, Begin, Actors
  <2>2. UNCHANGED <<pay, offered, captured, event>>
    BY <1>40 DEF ExpireOne, RetryFailedRefunds
  <2>3. QED
    BY <1>0, <2>1, <2>2
<1>41. ASSUME Tick PROVE CaptureFirst'
  BY <1>41 DEF Tick
<1>42. ASSUME NEW a \in Actors, Crash(a) PROVE CaptureFirst'
  BY <1>42, BoundsAssumption DEF Crash
<1>43. CASE UNCHANGED vars
  BY <1>43 DEF vars
<1>44. QED
  BY <1>1, <1>2, <1>3, <1>4, <1>5, <1>6, <1>7, <1>8, <1>9, <1>10, <1>11,
     <1>12, <1>13, <1>14, <1>15, <1>16, <1>17, <1>18, <1>19, <1>20, <1>21,
     <1>22, <1>23, <1>24, <1>25, <1>26, <1>27, <1>28, <1>29, <1>30, <1>31,
     <1>32, <1>33, <1>34, <1>35, <1>36, <1>37, <1>38, <1>39, <1>40, <1>41,
     <1>42, <1>43 DEF Next, Arrive, Continue, CronTick

(* A captured webhook that Razorpay will not send again is on record. *)
THEOREM AcknowledgedIsRecorded == Spec => []AckedCaptureRecorded
<1>1. CaptureFirst => AckedCaptureRecorded
  BY DEF CaptureFirst, Recorded, AckedCaptureRecorded
<1>2. QED
  BY <1>1, TypeInit, TypeStep, CaptureInit, CaptureStep, PTL DEF Spec

-----------------------------------------------------------------------------
(* The rows of an online order agree.  While only one handler runs at a     *)
(* time and none dies, what the rows say between two of its statements is   *)
(* known from the statement that comes next: Midway lists it.  Rows is what *)
(* holds at any time, Story what holds when nobody is at work.              *)

Settled == {"PAID", "REFUNDED"}
Underway == {"PAID", "MERCHANT_ACCEPTED", "PREPARING", "PACKING", "READY_FOR_PICKUP",
             "OUT_FOR_DELIVERY"}
Ended == Dead \cup {"DELIVERED", "COMPLETED"}

PaidAsStatus ==
    /\ order.status = "NONE" <=> order.paid = "NONE"
    /\ order.status = "PAYMENT_PENDING" => order.paid = "PENDING"
    /\ order.status \in {"PAYMENT_FAILED", "EXPIRED"} => order.paid = "FAILED"
    /\ order.status = "REFUNDED" => order.paid = "REFUNDED"
    /\ order.status \in {"PAID"} \cup Served => order.paid = "PAID"
    /\ order.status \in Cancelled => order.paid \in {"PENDING", "PAID"}

Rows ==
    /\ PaidAsStatus
    /\ pay.status = "NONE" <=> pay.rzp = NoRzp
    /\ hold = "ACTIVE" => chk # "EXPIRED" /\ (linked \/ chk = "INITIATED")
    /\ IF chkOrder THEN chk \notin {"NONE", "INITIATED"} /\ order.status # "NONE"
                   ELSE chk \in {"NONE", "INITIATED", "EXPIRED"} /\ pay.status = "NONE"
    /\ order.status = "NONE" => refund = "NONE"
    /\ refund = "FAILED" => order.status \in Cancelled /\ order.paid = "PAID"

PayAgrees ==
    /\ pay.status \in {"NONE", order.paid}
    /\ order.paid \in Settled => pay.status # "NONE"
    /\ chk = "RESERVED" /\ pay.status = "NONE" => order.paid = "PENDING" \/ age > 0
ChkAgrees == chk = "COMPLETED" <=> order.paid \in Settled
HoldAgrees == order.status \in Ended => hold # "ACTIVE"
RefundAgrees == order.status \in Cancelled /\ order.paid = "PAID" => refund # "NONE"
Whole == ~chkOrder => order.status = "NONE" /\ hold = "NONE" /\ chk # "INITIATED"
Story == /\ PayAgrees /\ ChkAgrees /\ HoldAgrees /\ RefundAgrees /\ Whole
         /\ refund # "PROCESSING"

Fresh == chk = "INITIATED" /\ ~chkOrder /\ refund = "NONE"
Unpaid == order.status = "PAYMENT_PENDING"
NoRefundDue == chkOrder /\ refund \in {"NONE", "REFUNDED"}
ToRefund == /\ order.status \in Cancelled /\ order.paid = "PAID" /\ pay.status = "PAID"
            /\ chkOrder /\ chk = "COMPLETED" /\ hold # "ACTIVE"

(* Statements of initiateCheckout, payment and delivery ... *)
MidwayPaying(j) ==
    /\ j.at = "reserve" => Fresh /\ hold = "NONE" /\ order.status = "NONE"
    /\ j.at = "order" => Fresh /\ hold = "ACTIVE" /\ order.status = "NONE"
    /\ j.at \in {"link", "reserved"} => Fresh /\ hold = "ACTIVE" /\ Unpaid
    /\ j.at = "reserved" => linked
    /\ j.at = "upsert" => Story /\ chkOrder /\ order.paid = "PENDING"
    /\ j.at \in {"payment", "replay", "fetch", "finalize"} => Story /\ chk = "RESERVED"
    /\ j.at = "payment" /\ j.req = "verify" => j.id # NoRzp
    /\ j.at \in {"fetch", "finalize"} => pay.rzp # NoRzp
    /\ j.at = "replay" => pay.status = "PAID"
    /\ j.at = "processed" => Story
    /\ j.at = "capture" => Story /\ pay.rzp # NoRzp /\ pay.status # "PAID"
    /\ j.at \in {"complete", "paid"} => pay.status = "PAID" /\ HoldAgrees /\ NoRefundDue
    /\ j.at = "paid" => chk = "COMPLETED"
    /\ j.at = "advance" => Story /\ order.status \in Underway /\ j.seen # "COMPLETED"
    /\ j.at \in {"delivered", "fulfil", "completeOrder"} =>
          PayAgrees /\ ChkAgrees /\ NoRefundDue /\ order.status = "DELIVERED"
    /\ j.at = "completeOrder" => hold # "ACTIVE"

(* ... and of the failed payment, the expiry crons, cancellation and refund. *)
MidwayFailing(j) ==
    /\ j.at = "failPayment" => Story /\ pay.status = "PENDING" /\ j.req = "failed"
    /\ j.at \in {"failOrder", "release", "expire"} =>
          j.req \in {"failed", "reservation-cron"} /\ NoRefundDue
    /\ j.at \in {"failOrder", "release", "expire"} /\ j.req = "failed" =>
          pay.status = "FAILED" /\ chk # "COMPLETED"
    /\ j.at = "failOrder" /\ j.req = "failed" => HoldAgrees
    /\ j.at \in {"release", "expire"} /\ j.req = "failed" => order.paid = "FAILED"
    /\ j.at \in {"release", "expire"} /\ j.req # "failed" =>
          PayAgrees /\ Unpaid /\ chk = "RESERVED" /\ j.seen # "NONE"
    /\ j.at = "expire" => hold # "ACTIVE"
    /\ j.at = "pending" => j.req = "reservation-cron" /\ NoRefundDue
    /\ j.at = "pending" \/ (j.at = "failOrder" /\ j.req # "failed") =>
          PayAgrees /\ Unpaid /\ chk = "EXPIRED" /\ hold # "ACTIVE"
    /\ (j.at = "releaseOrder" /\ j.req = "order-expiry") \/ j.at = "expireOrder" =>
          PayAgrees /\ Unpaid /\ chk # "COMPLETED" /\ age > 0 /\ NoRefundDue
    /\ j.at = "expireOrder" => hold # "ACTIVE"
    /\ j.at = "failPending" =>
          /\ order.paid = "FAILED" /\ pay.status \in {"NONE", "PENDING", "FAILED"}
          /\ chk # "COMPLETED" /\ hold # "ACTIVE" /\ NoRefundDue
          /\ chk = "RESERVED" => age > 0
    /\ j.at = "cancel" =>
          /\ Story /\ order.status \in {"PAYMENT_PENDING"} \cup Underway
          /\ j.seen = order.paid /\ j.req \in Cancellers
    /\ j.at = "releaseOrder" /\ j.req # "order-expiry" =>
          /\ PayAgrees /\ ChkAgrees /\ NoRefundDue
          /\ order.status \in Cancelled /\ j.seen = order.paid
    /\ j.at \in {"refund", "money"} => ToRefund
    /\ j.at = "refund" => NoRefundDue
    /\ j.at = "payRefunded" =>
          /\ order.status = "REFUNDED" /\ pay.status = "PAID" /\ refund = "REFUNDED"
          /\ chk = "COMPLETED" /\ hold # "ACTIVE" /\ chkOrder

Midway(j) == MidwayPaying(j) /\ MidwayFailing(j)

Calm ==
    /\ Rows
    /\ \A a \in Actors : job[a].at = "idle" <=> job[a] = Idle
    /\ \A a, b \in Actors : job[a] # Idle /\ job[b] # Idle => a = b
    /\ (\A a \in Actors : job[a] = Idle) => Story
    /\ \A a \in Actors : job[a] # Idle => Midway(job[a])

Serial == crashes = 0 => Calm

LEMMA IdleJob == Idle \in Jobs /\ Idle.at = "idle" /\ \A q, t, i, s : Job(q, t, i, s).at = t
  BY DEF Idle, Job, Jobs, Steps, PaymentStatus

(* What is known when a handler goes on ... *)
LEMMA AtWork ==
    ASSUME TypeInv, Serial, crashes' = 0, UNCHANGED crashes, NEW a \in Actors,
           job[a].at # "idle"
    PROVE  Rows /\ Midway(job[a]) /\ job[a] \in Jobs
              /\ \A b \in Actors : b # a => job[b] = Idle
  BY IdleJob DEF Serial, Calm, TypeInv, TypeOK

(* ... and when one starts. *)
LEMMA AtRest ==
    ASSUME TypeInv, Serial, crashes' = 0, UNCHANGED crashes, MaxJobs = 1,
           NEW a \in Actors, NEW req, NEW at, NEW id, NEW seen, Begin(a, req, at, id, seen)
    PROVE  Rows /\ Story /\ \A b \in Actors : job[b] = Idle
<1>1. Calm
  BY DEF Serial
<1>2. ASSUME Busy # {} PROVE FALSE
  <2>1. PICK b \in Busy : TRUE
    BY <1>2
  <2>2. Busy = {b}
    BY <1>1, <2>1 DEF Busy, Calm
  <2>3. Cardinality(Busy) = 1
    BY <2>2, FS_Singleton
  <2> QED  BY <2>3 DEF Begin
<1>3. \A b \in Actors : job[b] = Idle
  BY <1>2 DEF Busy
<1> QED  BY <1>1, <1>3 DEF Calm

LEMMA KeepsCalm ==
    ASSUME TypeInv, NEW a \in Actors, NEW j, job' = [job EXCEPT ![a] = j],
           \A b \in Actors : b # a => job[b] = Idle,
           Rows', j.at = "idle" => j = Idle /\ Story', j.at # "idle" => Midway(j)'
    PROVE  Serial'
<1>1. job'[a] = j /\ \A b \in Actors : b # a => job'[b] = Idle
  BY DEF TypeInv, TypeOK
<1>2. j.at = "idle" <=> j = Idle
  BY IdleJob
<1>3. \A b \in Actors : job'[b].at = "idle" <=> job'[b] = Idle
  BY <1>1, <1>2, IdleJob
<1>4. (\A b \in Actors : job'[b] = Idle) => Story'
  BY <1>1, <1>2
<1>5. \A b \in Actors : job'[b] # Idle => b = a
  BY <1>1
<1>6. ASSUME NEW b \in Actors, job'[b] # Idle PROVE Midway(job[b])'
  BY <1>1, <1>2, <1>5, <1>6
<1> QED  BY <1>3, <1>4, <1>5, <1>6 DEF Serial, Calm

LEMMA GoesOn ==
    ASSUME NEW a, NEW at, Goto(a, at)
    PROVE  \E j : /\ job' = [job EXCEPT ![a] = j] /\ j.at = at
                  /\ j.req = job[a].req /\ j.seen = job[a].seen
<1> WITNESS Job(job[a].req, at, job[a].id, job[a].seen)
<1> QED  BY DEF Goto, Job

LEMMA EndsCalm ==
    ASSUME TypeInv, NEW a \in Actors, Done(a),
           \A b \in Actors : b # a => job[b] = Idle, Rows', Story'
    PROVE  Serial'
<1>1. PICK j : j = Idle
  OBVIOUS
<1>2. job' = [job EXCEPT ![a] = j] /\ j.at = "idle"
  BY <1>1, IdleJob DEF Done
<1> QED  BY <1>1, <1>2, KeepsCalm

-----------------------------------------------------------------------------
(* The statements of the handlers: each leaves what the next one expects.  *)

LEMMA CreateOrderFromCheckoutCalm ==
    ASSUME TypeInv, Serial, crashes' = 0, NEW a \in Actors, "WALLET" \notin Methods,
            CreateOrderFromCheckout(a)
    PROVE  Serial'
<1>1. UNCHANGED crashes /\ job[a].at = "order"
  BY DEF CreateOrderFromCheckout, At
<1>2. Rows /\ Midway(job[a]) /\ job[a] \in Jobs
  BY <1>1, AtWork
<1>3. \A b \in Actors : b # a => job[b] = Idle
  BY <1>1, AtWork
<1>4. PICK j : /\ job' = [job EXCEPT ![a] = j] /\ j.at = "link"
              /\ j.req = job[a].req /\ j.seen = job[a].seen
  <2>1. Goto(a, "link")
    BY <1>1 DEF CreateOrderFromCheckout
  <2> QED  BY <2>1, GoesOn
<1>5. Rows'
  BY <1>1, <1>2 DEF CreateOrderFromCheckout, OrderRow, Rows, PaidAsStatus, Midway,
     MidwayPaying, Served
<1>6. Midway(j)'
  BY <1>1, <1>2, <1>4, <1>5 DEF CreateOrderFromCheckout, OrderRow, Midway, MidwayPaying,
     MidwayFailing, Fresh, Unpaid
<1> QED  BY <1>3, <1>4, <1>5, <1>6, KeepsCalm, IdleJob

LEMMA LinkReservationsCalm ==
    ASSUME TypeInv, Serial, crashes' = 0, NEW a \in Actors, LinkReservations(a)
    PROVE  Serial'
<1>1. UNCHANGED crashes /\ job[a].at = "link"
  BY DEF LinkReservations, At
<1>2. Rows /\ Midway(job[a]) /\ job[a] \in Jobs
  BY <1>1, AtWork
<1>3. \A b \in Actors : b # a => job[b] = Idle
  BY <1>1, AtWork
<1>4. PICK j : /\ job' = [job EXCEPT ![a] = j] /\ j.at = "reserved"
              /\ j.req = job[a].req /\ j.seen = job[a].seen
  <2>1. Goto(a, "reserved")
    BY <1>1 DEF LinkReservations
  <2> QED  BY <2>1, GoesOn
<1>5. Rows'
  BY <1>1, <1>2 DEF LinkReservations, Rows, PaidAsStatus, Midway, MidwayPaying, Fresh
<1>6. Midway(j)'
  BY <1>1, <1>2, <1>4, <1>5 DEF LinkReservations, Rows, PaidAsStatus, Midway, MidwayPaying,
     MidwayFailing, Story, PayAgrees, ChkAgrees, HoldAgrees, RefundAgrees, Whole, Fresh, Unpaid,
     NoRefundDue, ToRefund, Settled, Cancellers, Underway, Ended, Dead, Cancelled, Served, money,
     TypeInv, TypeOK, OrderRow, PayRow, RefundStatus
<1> QED  BY <1>3, <1>4, <1>5, <1>6, KeepsCalm, IdleJob

LEMMA MarkReservedCalm ==
    ASSUME TypeInv, Serial, crashes' = 0, NEW a \in Actors, MarkReserved(a)
    PROVE  Serial'
<1>1. UNCHANGED crashes /\ job[a].at = "reserved"
  BY DEF MarkReserved, At
<1>2. Rows /\ Midway(job[a]) /\ job[a] \in Jobs
  BY <1>1, AtWork
<1>3. \A b \in Actors : b # a => job[b] = Idle
  BY <1>1, AtWork
<1>4. PICK j : job' = [job EXCEPT ![a] = j] /\ j = Idle
  BY <1>1 DEF MarkReserved, Done
<1>5. Rows'
  BY <1>1, <1>2 DEF MarkReserved, Rows, PaidAsStatus, Midway, MidwayPaying, Unpaid
<1>6. Story'
  BY <1>1, <1>2, <1>4, <1>5 DEF MarkReserved, Rows, PaidAsStatus, Midway, MidwayPaying, Story,
     PayAgrees, ChkAgrees, HoldAgrees, RefundAgrees, Whole, Fresh, Unpaid, Settled, Ended, Dead,
     Cancelled
<1> QED  BY <1>3, <1>4, <1>5, <1>6, KeepsCalm, IdleJob

LEMMA UpsertPaymentCalm ==
    ASSUME TypeInv, Serial, crashes' = 0, NEW a \in Actors, UpsertPayment(a)
    PROVE  Serial'
<1>1. UNCHANGED crashes /\ job[a].at = "upsert"
  BY DEF UpsertPayment, At, money
<1>2. Rows /\ Midway(job[a]) /\ job[a] \in Jobs
  BY <1>1, AtWork
<1>3. \A b \in Actors : b # a => job[b] = Idle
  BY <1>1, AtWork
<1>4. PICK j : job' = [job EXCEPT ![a] = j] /\ j = Idle
  BY <1>1, NoRzpAssumption DEF UpsertPayment, Done
<1>5. Rows'
  BY <1>1, <1>2, NoRzpAssumption DEF UpsertPayment, Rows, PaidAsStatus, Midway, MidwayPaying,
     money, OrderRow, PayRow
<1>6. Story'
  BY <1>1, <1>2, <1>4, <1>5, NoRzpAssumption DEF UpsertPayment, Midway, MidwayPaying, Story,
     PayAgrees, ChkAgrees, HoldAgrees, RefundAgrees, Whole, money, OrderRow, PayRow
<1> QED  BY <1>3, <1>4, <1>5, <1>6, KeepsCalm, IdleJob

LEMMA ReplayCompletedCalm ==
    ASSUME TypeInv, Serial, crashes' = 0, NEW a \in Actors, ReplayCompleted(a)
    PROVE  Serial'
<1>1. UNCHANGED crashes /\ job[a].at = "replay"
  BY DEF ReplayCompleted, At
<1>2. Rows /\ Midway(job[a]) /\ job[a] \in Jobs
  BY <1>1, AtWork
<1>3. \A b \in Actors : b # a => job[b] = Idle
  BY <1>1, AtWork
<1>4. PICK j : job' = [job EXCEPT ![a] = j] /\ j = Idle
  BY <1>1 DEF ReplayCompleted, Done
<1>5. Rows'
  BY <1>1, <1>2 DEF ReplayCompleted, Rows, PaidAsStatus, Midway, MidwayPaying
<1>6. Story'
  BY <1>1, <1>2, <1>4, <1>5 DEF ReplayCompleted, Midway, MidwayPaying, Story, PayAgrees,
     ChkAgrees, Settled
<1> QED  BY <1>3, <1>4, <1>5, <1>6, KeepsCalm, IdleJob

LEMMA FetchOrderPaymentsCalm ==
    ASSUME TypeInv, Serial, crashes' = 0, NEW a \in Actors, FetchOrderPayments(a)
    PROVE  Serial'
<1>1. UNCHANGED crashes /\ job[a].at = "fetch"
  BY DEF FetchOrderPayments, At
<1>2. Rows /\ Midway(job[a]) /\ job[a] \in Jobs
  BY <1>1, AtWork
<1>3. \A b \in Actors : b # a => job[b] = Idle
  BY <1>1, AtWork
<1>5. Rows'
  BY <1>1, <1>2 DEF FetchOrderPayments, Rows, PaidAsStatus
<1>a. CASE job[a].id \in captured
  <2>4. PICK j : /\ job' = [job EXCEPT ![a] = j] /\ j.at = "finalize"
                /\ j.req = job[a].req /\ j.seen = job[a].seen
    <3>1. Goto(a, "finalize")
      BY <1>1, <1>a DEF FetchOrderPayments
    <3> QED  BY <3>1, GoesOn
  <2>6. Midway(j)'
    BY <1>1, <1>2, <1>5, <2>4, <1>a DEF FetchOrderPayments, Midway, MidwayPaying,
       MidwayFailing, Story, PayAgrees, ChkAgrees, HoldAgrees, RefundAgrees, Whole
  <2> QED  BY <1>3, <2>4, <1>5, <2>6, KeepsCalm, IdleJob
<1>b. CASE job[a].id \notin captured
  <2>4. PICK j : job' = [job EXCEPT ![a] = j] /\ j = Idle
    BY <1>1, <1>b DEF FetchOrderPayments, Done
  <2>6. Story'
    BY <1>1, <1>2, <1>5, <2>4, <1>b DEF FetchOrderPayments, Midway, MidwayPaying, Story,
       PayAgrees, ChkAgrees, HoldAgrees, RefundAgrees, Whole
  <2> QED  BY <1>3, <2>4, <1>5, <2>6, KeepsCalm, IdleJob
<1> QED  BY <1>1, <1>a, <1>b DEF FetchOrderPayments

LEMMA FinalizeOnlinePaymentCalm ==
    ASSUME TypeInv, Serial, crashes' = 0, NEW a \in Actors, FinalizeOnlinePayment(a)
    PROVE  Serial'
<1>1. UNCHANGED crashes /\ job[a].at = "finalize"
  BY DEF FinalizeOnlinePayment, At
<1>2. Rows /\ Midway(job[a]) /\ job[a] \in Jobs
  BY <1>1, AtWork
<1>3. \A b \in Actors : b # a => job[b] = Idle
  BY <1>1, AtWork
<1>4. PICK j : /\ job' = [job EXCEPT ![a] = j] /\ j.at = "paid"
              /\ j.req = job[a].req /\ j.seen = job[a].seen
  <2>1. Goto(a, "paid")
    BY <1>1 DEF FinalizeOnlinePayment
  <2> QED  BY <2>1, GoesOn
<1>5. Rows'
  BY <1>1, <1>2 DEF FinalizeOnlinePayment, Rows, PaidAsStatus, Midway, MidwayPaying, PayRow
<1>6. Midway(j)'
  BY <1>1, <1>2, <1>4, <1>5 DEF FinalizeOnlinePayment, Rows, Midway, MidwayPaying,
     MidwayFailing, Story, ChkAgrees, HoldAgrees, NoRefundDue, Settled, TypeInv, TypeOK, PayRow,
     RefundStatus
<1> QED  BY <1>3, <1>4, <1>5, <1>6, KeepsCalm, IdleJob

LEMMA OrderPaidCalm ==
    ASSUME TypeInv, Serial, crashes' = 0, NEW a \in Actors, OrderPaid(a)
    PROVE  Serial'
<1>1. UNCHANGED crashes /\ job[a].at = "paid"
  BY DEF OrderPaid, At
<1>2. Rows /\ Midway(job[a]) /\ job[a] \in Jobs
  BY <1>1, AtWork
<1>3. \A b \in Actors : b # a => job[b] = Idle
  BY <1>1, AtWork
<1>5. Rows'
  BY <1>1, <1>2 DEF OrderPaid, Transition, Rows, PaidAsStatus, Midway, MidwayPaying,
     NoRefundDue, TypeInv, TypeOK, OrderRow
<1>a. CASE job[a].req = "captured"
  <2>4. PICK j : /\ job' = [job EXCEPT ![a] = j] /\ j.at = "processed"
                /\ j.req = job[a].req /\ j.seen = job[a].seen
    <3>1. Goto(a, "processed")
      BY <1>1, <1>a DEF OrderPaid
    <3> QED  BY <3>1, GoesOn
  <2>6. Midway(j)'
    BY <1>1, <1>2, <1>5, <2>4, <1>a DEF OrderPaid, Transition, Rows, PaidAsStatus, Midway,
       MidwayPaying, MidwayFailing, Story, PayAgrees, ChkAgrees, HoldAgrees, RefundAgrees, Whole,
       NoRefundDue, Settled, Ended, Dead, Cancelled, OrderRow
  <2> QED  BY <1>3, <2>4, <1>5, <2>6, KeepsCalm, IdleJob
<1>b. CASE job[a].req # "captured"
  <2>4. PICK j : job' = [job EXCEPT ![a] = j] /\ j = Idle
    BY <1>1, <1>b DEF OrderPaid, Done
  <2>6. Story'
    BY <1>1, <1>2, <1>5, <2>4, <1>b DEF OrderPaid, Transition, Rows, PaidAsStatus, Midway,
       MidwayPaying, Story, PayAgrees, ChkAgrees, HoldAgrees, RefundAgrees, Whole, NoRefundDue,
       Settled, Ended, Dead, Cancelled, OrderRow
  <2> QED  BY <1>3, <2>4, <1>5, <2>6, KeepsCalm, IdleJob
<1> QED  BY <1>1, <1>a, <1>b DEF OrderPaid

LEMMA CapturePaymentCalm ==
    ASSUME TypeInv, Serial, crashes' = 0, NEW a \in Actors, CapturePayment(a)
    PROVE  Serial'
<1>1. UNCHANGED crashes /\ job[a].at = "capture"
  BY DEF CapturePayment, At
<1>2. Rows /\ Midway(job[a]) /\ job[a] \in Jobs
  BY <1>1, AtWork
<1>3. \A b \in Actors : b # a => job[b] = Idle
  BY <1>1, AtWork
<1>5. Rows'
  BY <1>1, <1>2 DEF CapturePayment, Rows, PaidAsStatus, Midway, MidwayPaying, PayRow
<1>a. CASE pay.status = "PAID"
  <2>4. PICK j : /\ job' = [job EXCEPT ![a] = j] /\ j.at = "processed"
                /\ j.req = job[a].req /\ j.seen = job[a].seen
    <3>1. Goto(a, "processed")
      BY <1>1, <1>a DEF CapturePayment
    <3> QED  BY <3>1, GoesOn
  <2>6. Midway(j)'
    BY <1>1, <1>2, <1>5, <2>4, <1>a DEF CapturePayment, Midway, MidwayPaying
  <2> QED  BY <1>3, <2>4, <1>5, <2>6, KeepsCalm, IdleJob
<1>b. CASE pay.status # "PAID"
  <2>4. PICK j : /\ job' = [job EXCEPT ![a] = j] /\ j.at = "complete"
                /\ j.req = job[a].req /\ j.seen = job[a].seen
    <3>1. Goto(a, "complete")
      BY <1>1, <1>b DEF CapturePayment
    <3> QED  BY <3>1, GoesOn
  <2>6. Midway(j)'
    BY <1>1, <1>2, <1>5, <2>4, <1>b DEF CapturePayment, Rows, Midway, MidwayPaying,
       MidwayFailing, Story, PayAgrees, HoldAgrees, NoRefundDue, TypeInv, TypeOK, PayRow,
       RefundStatus
  <2> QED  BY <1>3, <2>4, <1>5, <2>6, KeepsCalm, IdleJob
<1> QED  BY <1>1, <1>a, <1>b DEF CapturePayment

LEMMA CompleteCheckoutCalm ==
    ASSUME TypeInv, Serial, crashes' = 0, NEW a \in Actors, CompleteCheckout(a)
    PROVE  Serial'
<1>1. UNCHANGED crashes /\ job[a].at = "complete"
  BY DEF CompleteCheckout, At
<1>2. Rows /\ Midway(job[a]) /\ job[a] \in Jobs
  BY <1>1, AtWork
<1>3. \A b \in Actors : b # a => job[b] = Idle
  BY <1>1, AtWork
<1>4. PICK j : /\ job' = [job EXCEPT ![a] = j] /\ j.at = "paid"
              /\ j.req = job[a].req /\ j.seen = job[a].seen
  <2>1. Goto(a, "paid")
    BY <1>1 DEF CompleteCheckout
  <2> QED  BY <2>1, GoesOn
<1>5. Rows'
  BY <1>1, <1>2 DEF CompleteCheckout, Rows, PaidAsStatus
<1>6. Midway(j)'
  BY <1>1, <1>2, <1>4, <1>5 DEF CompleteCheckout, Midway, MidwayPaying, MidwayFailing,
     HoldAgrees, NoRefundDue
<1> QED  BY <1>3, <1>4, <1>5, <1>6, KeepsCalm, IdleJob

LEMMA MarkProcessedCalm ==
    ASSUME TypeInv, Serial, crashes' = 0, NEW a \in Actors, MarkProcessed(a)
    PROVE  Serial'
<1>1. UNCHANGED crashes /\ job[a].at = "processed"
  BY DEF MarkProcessed, At, money
<1>2. Rows /\ Midway(job[a]) /\ job[a] \in Jobs
  BY <1>1, AtWork
<1>3. \A b \in Actors : b # a => job[b] = Idle
  BY <1>1, AtWork
<1>4. PICK j : job' = [job EXCEPT ![a] = j] /\ j = Idle
  BY <1>1 DEF MarkProcessed, Done
<1>5. Rows'
  BY <1>1, <1>2 DEF MarkProcessed, Rows, PaidAsStatus, money, OrderRow, PayRow
<1>6. Story'
  BY <1>1, <1>2, <1>4, <1>5 DEF MarkProcessed, Midway, MidwayPaying, Story, PayAgrees,
     ChkAgrees, HoldAgrees, RefundAgrees, Whole, money, OrderRow, PayRow
<1> QED  BY <1>3, <1>4, <1>5, <1>6, KeepsCalm, IdleJob

LEMMA FailPaymentCalm ==
    ASSUME TypeInv, Serial, crashes' = 0, NEW a \in Actors, FailPayment(a)
    PROVE  Serial'
<1>1. UNCHANGED crashes /\ job[a].at = "failPayment"
  BY DEF FailPayment, At
<1>2. Rows /\ Midway(job[a]) /\ job[a] \in Jobs
  BY <1>1, AtWork
<1>3. \A b \in Actors : b # a => job[b] = Idle
  BY <1>1, AtWork
<1>4. PICK j : /\ job' = [job EXCEPT ![a] = j] /\ j.at = "failOrder"
              /\ j.req = job[a].req /\ j.seen = job[a].seen
  <2>1. Goto(a, "failOrder")
    BY <1>1 DEF FailPayment
  <2> QED  BY <2>1, GoesOn
<1>5. Rows'
  BY <1>1, <1>2 DEF FailPayment, Rows, PaidAsStatus, Midway, MidwayFailing, PayRow
<1>6. Midway(j)'
  BY <1>1, <1>2, <1>4, <1>5 DEF FailPayment, Rows, Midway, MidwayPaying, MidwayFailing, Story,
     PayAgrees, ChkAgrees, HoldAgrees, NoRefundDue, Settled, TypeInv, TypeOK, PayRow,
     RefundStatus
<1> QED  BY <1>3, <1>4, <1>5, <1>6, KeepsCalm, IdleJob

LEMMA FailOrderCalm ==
    ASSUME TypeInv, Serial, crashes' = 0, NEW a \in Actors, FailOrder(a)
    PROVE  Serial'
<1>1. UNCHANGED crashes /\ job[a].at = "failOrder"
  BY DEF FailOrder, At
<1>2. Rows /\ Midway(job[a]) /\ job[a] \in Jobs
  BY <1>1, AtWork
<1>3. \A b \in Actors : b # a => job[b] = Idle
  BY <1>1, AtWork
<1>5. Rows'
  BY <1>1, <1>2 DEF FailOrder, Transition, Rows, PaidAsStatus, Midway, MidwayFailing,
     NoRefundDue, Cancelled, Served, OrderRow
<1>a. CASE job[a].req = "reservation-cron"
  <2>4. PICK j : /\ job' = [job EXCEPT ![a] = j] /\ j.at = "failPending"
                /\ j.req = job[a].req /\ j.seen = job[a].seen
    <3>1. Goto(a, "failPending")
      BY <1>1, <1>2, <1>a DEF FailOrder
    <3> QED  BY <3>1, GoesOn
  <2>6. Midway(j)'
    BY <1>1, <1>2, <1>5, <2>4, <1>a DEF FailOrder, Transition, Rows, PaidAsStatus, Midway,
       MidwayPaying, MidwayFailing, PayAgrees, Unpaid, NoRefundDue, OrderRow
  <2> QED  BY <1>3, <2>4, <1>5, <2>6, KeepsCalm, IdleJob
<1>b. CASE job[a].req # "reservation-cron"
  <2>4. PICK j : /\ job' = [job EXCEPT ![a] = j] /\ j.at = "release"
                /\ j.req = job[a].req /\ j.seen = job[a].seen
    <3>1. Goto(a, "release")
      BY <1>1, <1>2, <1>b DEF FailOrder, NoRefundDue, Midway, MidwayFailing
    <3> QED  BY <3>1, GoesOn
  <2>6. Midway(j)'
    BY <1>1, <1>2, <1>5, <2>4, <1>b DEF FailOrder, Transition, Rows, PaidAsStatus, Midway,
       MidwayPaying, MidwayFailing, NoRefundDue, OrderRow
  <2> QED  BY <1>3, <2>4, <1>5, <2>6, KeepsCalm, IdleJob
<1> QED  BY <1>1, <1>a, <1>b DEF FailOrder

LEMMA ReleaseReservationsCalm ==
    ASSUME TypeInv, Serial, crashes' = 0, NEW a \in Actors, ReleaseReservations(a)
    PROVE  Serial'
<1>1. UNCHANGED crashes /\ job[a].at = "release"
  BY DEF ReleaseReservations, At
<1>2. Rows /\ Midway(job[a]) /\ job[a] \in Jobs
  BY <1>1, AtWork
<1>3. \A b \in Actors : b # a => job[b] = Idle
  BY <1>1, AtWork
<1>4. PICK j : /\ job' = [job EXCEPT ![a] = j] /\ j.at = "expire"
              /\ j.req = job[a].req /\ j.seen = job[a].seen
  <2>1. Goto(a, "expire")
    BY <1>1 DEF ReleaseReservations
  <2> QED  BY <2>1, GoesOn
<1>5. Rows'
  BY <1>1, <1>2 DEF ReleaseReservations, Settle, Rows, PaidAsStatus
<1>6. Midway(j)'
  BY <1>1, <1>2, <1>4, <1>5 DEF ReleaseReservations, Settle, Midway, MidwayPaying,
     MidwayFailing, PayAgrees, Unpaid, NoRefundDue
<1> QED  BY <1>3, <1>4, <1>5, <1>6, KeepsCalm, IdleJob

LEMMA ExpireCheckoutCalm ==
    ASSUME TypeInv, Serial, crashes' = 0, NEW a \in Actors, ExpireCheckout(a)
    PROVE  Serial'
<1>1. UNCHANGED crashes /\ job[a].at = "expire"
  BY DEF ExpireCheckout, At
<1>2. Rows /\ Midway(job[a]) /\ job[a] \in Jobs
  BY <1>1, AtWork
<1>3. \A b \in Actors : b # a => job[b] = Idle
  BY <1>1, AtWork
<1>5. Rows'
  BY <1>1, <1>2 DEF ExpireCheckout, Rows, PaidAsStatus, Midway, MidwayFailing
<1>a. CASE job[a].req = "failed"
  <2>4. PICK j : /\ job' = [job EXCEPT ![a] = j] /\ j.at = "processed"
                /\ j.req = job[a].req /\ j.seen = job[a].seen
    <3>1. Goto(a, "processed")
      BY <1>1, <1>2, <1>a DEF ExpireCheckout
    <3> QED  BY <3>1, GoesOn
  <2>6. Midway(j)'
    BY <1>1, <1>2, <1>5, <2>4, <1>a DEF ExpireCheckout, Midway, MidwayPaying, MidwayFailing,
       Story, PayAgrees, ChkAgrees, HoldAgrees, RefundAgrees, Whole, NoRefundDue, Settled
  <2> QED  BY <1>3, <2>4, <1>5, <2>6, KeepsCalm, IdleJob
<1>b. CASE job[a].req # "failed"
  <2>4. PICK j : /\ job' = [job EXCEPT ![a] = j] /\ j.at = "pending"
                /\ j.req = job[a].req /\ j.seen = job[a].seen
    <3>1. Goto(a, "pending")
      BY <1>1, <1>2, <1>b DEF ExpireCheckout, Midway, MidwayFailing
    <3> QED  BY <3>1, GoesOn
  <2>6. Midway(j)'
    BY <1>1, <1>2, <1>5, <2>4, <1>b DEF ExpireCheckout, Midway, MidwayPaying, MidwayFailing,
       PayAgrees, Unpaid, NoRefundDue
  <2> QED  BY <1>3, <2>4, <1>5, <2>6, KeepsCalm, IdleJob
<1> QED  BY <1>1, <1>a, <1>b DEF ExpireCheckout

LEMMA ReadPendingOrderCalm ==
    ASSUME TypeInv, Serial, crashes' = 0, NEW a \in Actors, ReadPendingOrder(a)
    PROVE  Serial'
<1>1. UNCHANGED crashes /\ job[a].at = "pending"
  BY DEF ReadPendingOrder, At
<1>2. Rows /\ Midway(job[a]) /\ job[a] \in Jobs
  BY <1>1, AtWork
<1>3. \A b \in Actors : b # a => job[b] = Idle
  BY <1>1, AtWork
<1>4. PICK j : /\ job' = [job EXCEPT ![a] = j] /\ j.at = "failOrder"
              /\ j.req = job[a].req /\ j.seen = job[a].seen
  <2>1. Goto(a, "failOrder")
    BY <1>1, <1>2 DEF ReadPendingOrder, Unpaid, Midway, MidwayFailing
  <2> QED  BY <2>1, GoesOn
<1>5. Rows'
  BY <1>1, <1>2 DEF ReadPendingOrder, Rows, PaidAsStatus
<1>6. Midway(j)'
  BY <1>1, <1>2, <1>4, <1>5 DEF ReadPendingOrder, Midway, MidwayPaying, MidwayFailing,
     PayAgrees, Unpaid, NoRefundDue
<1> QED  BY <1>3, <1>4, <1>5, <1>6, KeepsCalm, IdleJob

LEMMA FailPendingPaymentCalm ==
    ASSUME TypeInv, Serial, crashes' = 0, NEW a \in Actors, FailPendingPayment(a)
    PROVE  Serial'
<1>1. UNCHANGED crashes /\ job[a].at = "failPending"
  BY DEF FailPendingPayment, At
<1>2. Rows /\ Midway(job[a]) /\ job[a] \in Jobs
  BY <1>1, AtWork
<1>3. \A b \in Actors : b # a => job[b] = Idle
  BY <1>1, AtWork
<1>4. PICK j : job' = [job EXCEPT ![a] = j] /\ j = Idle
  BY <1>1 DEF FailPendingPayment, Done
<1>5. Rows'
  BY <1>1, <1>2 DEF FailPendingPayment, Rows, PaidAsStatus, PayRow
<1>6. Story'
  BY <1>1, <1>2, <1>4, <1>5 DEF FailPendingPayment, Midway, MidwayFailing, Story, PayAgrees,
     ChkAgrees, HoldAgrees, RefundAgrees, Whole, NoRefundDue, Settled, PayRow
<1> QED  BY <1>3, <1>4, <1>5, <1>6, KeepsCalm, IdleJob

LEMMA ReleaseOrderReservationsCalm ==
    ASSUME TypeInv, Serial, crashes' = 0, NEW a \in Actors, ReleaseOrderReservations(a)
    PROVE  Serial'
<1>1. UNCHANGED crashes /\ job[a].at = "releaseOrder"
  BY DEF ReleaseOrderReservations, At
<1>2. Rows /\ Midway(job[a]) /\ job[a] \in Jobs
  BY <1>1, AtWork
<1>3. \A b \in Actors : b # a => job[b] = Idle
  BY <1>1, AtWork
<1>5. Rows'
  BY <1>1, <1>2 DEF ReleaseOrderReservations, Settle, Rows, PaidAsStatus
<1>a. CASE job[a].req = "order-expiry"
  <2>4. PICK j : /\ job' = [job EXCEPT ![a] = j] /\ j.at = "expireOrder"
                /\ j.req = job[a].req /\ j.seen = job[a].seen
    <3>1. Goto(a, "expireOrder")
      BY <1>1, <1>a DEF ReleaseOrderReservations
    <3> QED  BY <3>1, GoesOn
  <2>6. Midway(j)'
    BY <1>1, <1>2, <1>5, <2>4, <1>a DEF ReleaseOrderReservations, Settle, Rows, Midway,
       MidwayPaying, MidwayFailing, PayAgrees, Unpaid, NoRefundDue
  <2> QED  BY <1>3, <2>4, <1>5, <2>6, KeepsCalm, IdleJob
<1>b. CASE job[a].req # "order-expiry" /\ job[a].seen = "PAID"
  <2>4. PICK j : /\ job' = [job EXCEPT ![a] = j] /\ j.at = "refund"
                /\ j.req = job[a].req /\ j.seen = job[a].seen
    <3>1. Goto(a, "refund")
      BY <1>1, <1>b DEF ReleaseOrderReservations
    <3> QED  BY <3>1, GoesOn
  <2>6. Midway(j)'
    BY <1>1, <1>2, <1>5, <2>4, <1>b DEF ReleaseOrderReservations, Settle, Rows, Midway,
       MidwayPaying, MidwayFailing, PayAgrees, ChkAgrees, NoRefundDue, ToRefund, Settled
  <2> QED  BY <1>3, <2>4, <1>5, <2>6, KeepsCalm, IdleJob
<1>c. CASE job[a].req # "order-expiry" /\ job[a].seen # "PAID"
  <2>4. PICK j : job' = [job EXCEPT ![a] = j] /\ j = Idle
    BY <1>1, <1>c DEF ReleaseOrderReservations, Done
  <2>6. Story'
    BY <1>1, <1>2, <1>5, <2>4, <1>c DEF ReleaseOrderReservations, Settle, Rows, Midway,
       MidwayFailing, Story, PayAgrees, ChkAgrees, HoldAgrees, RefundAgrees, Whole, NoRefundDue
  <2> QED  BY <1>3, <2>4, <1>5, <2>6, KeepsCalm, IdleJob
<1> QED  BY <1>1, <1>a, <1>b, <1>c DEF ReleaseOrderReservations

LEMMA ExpireOrderCalm ==
    ASSUME TypeInv, Serial, crashes' = 0, NEW a \in Actors, ExpireOrder(a)
    PROVE  Serial'
<1>1. UNCHANGED crashes /\ job[a].at = "expireOrder"
  BY DEF ExpireOrder, At
<1>2. Rows /\ Midway(job[a]) /\ job[a] \in Jobs
  BY <1>1, AtWork
<1>3. \A b \in Actors : b # a => job[b] = Idle
  BY <1>1, AtWork
<1>4. PICK j : /\ job' = [job EXCEPT ![a] = j] /\ j.at = "failPending"
              /\ j.req = job[a].req /\ j.seen = job[a].seen
  <2>1. Goto(a, "failPending")
    BY <1>1 DEF ExpireOrder
  <2> QED  BY <2>1, GoesOn
<1>5. Rows'
  BY <1>1, <1>2 DEF ExpireOrder, Transition, Rows, PaidAsStatus, Midway, MidwayFailing,
     Unpaid, Cancelled, Served, OrderRow
<1>6. Midway(j)'
  BY <1>1, <1>2, <1>4, <1>5 DEF ExpireOrder, Transition, Rows, PaidAsStatus, Midway,
     MidwayPaying, MidwayFailing, PayAgrees, Unpaid, NoRefundDue, OrderRow
<1> QED  BY <1>3, <1>4, <1>5, <1>6, KeepsCalm, IdleJob

LEMMA CancelOrderCalm ==
    ASSUME TypeInv, Serial, crashes' = 0, NEW a \in Actors, CancelOrder(a)
    PROVE  Serial'
<1>1. UNCHANGED crashes /\ job[a].at = "cancel"
  BY DEF CancelOrder, At
<1>2. Rows /\ Midway(job[a]) /\ job[a] \in Jobs
  BY <1>1, AtWork
<1>3. \A b \in Actors : b # a => job[b] = Idle
  BY <1>1, AtWork
<1>4. PICK j : /\ job' = [job EXCEPT ![a] = j] /\ j.at = "releaseOrder"
              /\ j.req = job[a].req /\ j.seen = job[a].seen
  <2>1. Goto(a, "releaseOrder")
    BY <1>1, NextStatuses DEF CancelOrder
  <2> QED  BY <2>1, GoesOn
<1>5. Rows'
  BY <1>1, <1>2, NextStatuses DEF CancelOrder, Transition, Rows, PaidAsStatus, Midway,
     MidwayFailing, Underway, Cancelled, Served, OrderRow
<1>6. Midway(j)'
  BY <1>1, <1>2, <1>4, <1>5, NextStatuses DEF CancelOrder, Transition, Rows, Midway,
     MidwayPaying, MidwayFailing, Story, PayAgrees, ChkAgrees, Whole, NoRefundDue, Cancellers,
     Underway, Cancelled, TypeInv, TypeOK, OrderRow, RefundStatus
<1> QED  BY <1>3, <1>4, <1>5, <1>6, KeepsCalm, IdleJob

LEMMA InitiateRefundCalm ==
    ASSUME TypeInv, Serial, crashes' = 0, NEW a \in Actors, InitiateRefund(a)
    PROVE  Serial'
<1>1. UNCHANGED crashes /\ job[a].at = "refund"
  BY DEF InitiateRefund, At
<1>2. Rows /\ Midway(job[a]) /\ job[a] \in Jobs
  BY <1>1, AtWork
<1>3. \A b \in Actors : b # a => job[b] = Idle
  BY <1>1, AtWork
<1>5. Rows'
  BY <1>1, <1>2 DEF InitiateRefund, Rows, PaidAsStatus
<1>a. CASE refund = "NONE"
  <2>4. PICK j : /\ job' = [job EXCEPT ![a] = j] /\ j.at = "money"
                /\ j.req = job[a].req /\ j.seen = job[a].seen
    <3>1. Goto(a, "money")
      BY <1>1, <1>2, <1>a DEF InitiateRefund, ToRefund, Midway, MidwayFailing
    <3> QED  BY <3>1, GoesOn
  <2>6. Midway(j)'
    BY <1>1, <1>2, <1>5, <2>4, <1>a DEF InitiateRefund, Midway, MidwayPaying, MidwayFailing,
       ToRefund
  <2> QED  BY <1>3, <2>4, <1>5, <2>6, KeepsCalm, IdleJob
<1>b. CASE refund # "NONE"
  <2>4. PICK j : job' = [job EXCEPT ![a] = j] /\ j = Idle
    BY <1>1, <1>2, <1>b DEF InitiateRefund, NoRefundDue, Midway, MidwayFailing, Done
  <2>6. Story'
    BY <1>1, <1>2, <1>5, <2>4, <1>b DEF InitiateRefund, Midway, MidwayFailing, Story,
       PayAgrees, ChkAgrees, HoldAgrees, RefundAgrees, Whole, NoRefundDue, ToRefund, Settled
  <2> QED  BY <1>3, <2>4, <1>5, <2>6, KeepsCalm, IdleJob
<1> QED  BY <1>1, <1>a, <1>b DEF InitiateRefund

LEMMA RefundMoneyCalm ==
    ASSUME TypeInv, Serial, crashes' = 0, NEW a \in Actors, RefundMoney(a)
    PROVE  Serial'
<1>1. UNCHANGED crashes /\ job[a].at = "money"
  BY DEF RefundMoney, At
<1>2. Rows /\ Midway(job[a]) /\ job[a] \in Jobs
  BY <1>1, AtWork
<1>3. \A b \in Actors : b # a => job[b] = Idle
  BY <1>1, AtWork
<1>5. Rows'
  BY <1>1, <1>2 DEF RefundMoney, Rows, PaidAsStatus, Midway, MidwayFailing, ToRefund,
     Cancelled, Served, OrderRow
<1>a. CASE refund' = "FAILED"
  <2>4. PICK j : job' = [job EXCEPT ![a] = j] /\ j = Idle
    BY <1>1, <1>a DEF RefundMoney, Done
  <2>6. Story'
    BY <1>1, <1>2, <1>5, <2>4, <1>a DEF RefundMoney, Midway, MidwayFailing, Story, PayAgrees,
       ChkAgrees, HoldAgrees, RefundAgrees, Whole, ToRefund, Settled
  <2> QED  BY <1>3, <2>4, <1>5, <2>6, KeepsCalm, IdleJob
<1>b. CASE refund' = "REFUNDED"
  <2>4. PICK j : /\ job' = [job EXCEPT ![a] = j] /\ j.at = "payRefunded"
                /\ j.req = job[a].req /\ j.seen = job[a].seen
    <3>1. Goto(a, "payRefunded")
      BY <1>1, <1>b DEF RefundMoney
    <3> QED  BY <3>1, GoesOn
  <2>6. Midway(j)'
    BY <1>1, <1>2, <1>5, <2>4, <1>b DEF RefundMoney, Midway, MidwayPaying, MidwayFailing,
       ToRefund, OrderRow
  <2> QED  BY <1>3, <2>4, <1>5, <2>6, KeepsCalm, IdleJob
<1> QED  BY <1>1, <1>a, <1>b DEF RefundMoney

LEMMA MarkPaymentRefundedCalm ==
    ASSUME TypeInv, Serial, crashes' = 0, NEW a \in Actors, MarkPaymentRefunded(a)
    PROVE  Serial'
<1>1. UNCHANGED crashes /\ job[a].at = "payRefunded"
  BY DEF MarkPaymentRefunded, At
<1>2. Rows /\ Midway(job[a]) /\ job[a] \in Jobs
  BY <1>1, AtWork
<1>3. \A b \in Actors : b # a => job[b] = Idle
  BY <1>1, AtWork
<1>4. PICK j : job' = [job EXCEPT ![a] = j] /\ j = Idle
  BY <1>1 DEF MarkPaymentRefunded, Done
<1>5. Rows'
  BY <1>1, <1>2 DEF MarkPaymentRefunded, Rows, PaidAsStatus, PayRow
<1>6. Story'
  BY <1>1, <1>2, <1>4, <1>5 DEF MarkPaymentRefunded, Rows, PaidAsStatus, Midway,
     MidwayFailing, Story, PayAgrees, ChkAgrees, HoldAgrees, RefundAgrees, Whole, Settled, PayRow
<1> QED  BY <1>3, <1>4, <1>5, <1>6, KeepsCalm, IdleJob

LEMMA WriteAdvanceCalm ==
    ASSUME TypeInv, Serial, crashes' = 0, NEW a \in Actors, WriteAdvance(a)
    PROVE  Serial'
<1>1. UNCHANGED crashes /\ job[a].at = "advance"
  BY DEF WriteAdvance, At
<1>2. Rows /\ Midway(job[a]) /\ job[a] \in Jobs
  BY <1>1, AtWork
<1>3. \A b \in Actors : b # a => job[b] = Idle
  BY <1>1, AtWork
<1>5. Rows'
  BY <1>1, <1>2 DEF WriteAdvance, Transition, Rows, PaidAsStatus, Midway, MidwayPaying,
     Underway, Cancelled, Served, TypeInv, OrderRow
<1>a. CASE job[a].seen = "DELIVERED"
  <2>4. PICK j : /\ job' = [job EXCEPT ![a] = j] /\ j.at = "delivered"
                /\ j.req = job[a].req /\ j.seen = job[a].seen
    <3>1. Goto(a, "delivered")
      BY <1>1, <1>a DEF WriteAdvance
    <3> QED  BY <3>1, GoesOn
  <2>6. Midway(j)'
    BY <1>1, <1>2, <1>5, <2>4, <1>a DEF WriteAdvance, Transition, Rows, PaidAsStatus, Midway,
       MidwayPaying, MidwayFailing, Story, PayAgrees, ChkAgrees, NoRefundDue, Settled, Cancelled,
       TypeInv, TypeOK, OrderRow, RefundStatus
  <2> QED  BY <1>3, <2>4, <1>5, <2>6, KeepsCalm, IdleJob
<1>b. CASE job[a].seen # "DELIVERED"
  <2>4. PICK j : job' = [job EXCEPT ![a] = j] /\ j = Idle
    BY <1>1, <1>b DEF WriteAdvance, Done
  <2>6. Story'
    BY <1>1, <1>2, <1>5, <2>4, <1>b DEF WriteAdvance, Transition, Rows, PaidAsStatus, Midway,
       MidwayPaying, Story, PayAgrees, ChkAgrees, HoldAgrees, RefundAgrees, Whole, Ended, Dead,
       Cancelled, Served, TypeInv, OrderRow
  <2> QED  BY <1>3, <2>4, <1>5, <2>6, KeepsCalm, IdleJob
<1> QED  BY <1>1, <1>a, <1>b DEF WriteAdvance

LEMMA HandleDeliveredCalm ==
    ASSUME TypeInv, Serial, crashes' = 0, NEW a \in Actors, HandleDelivered(a)
    PROVE  Serial'
<1>1. UNCHANGED crashes /\ job[a].at = "delivered"
  BY DEF HandleDelivered, At
<1>2. Rows /\ Midway(job[a]) /\ job[a] \in Jobs
  BY <1>1, AtWork
<1>3. \A b \in Actors : b # a => job[b] = Idle
  BY <1>1, AtWork
<1>4. PICK j : /\ job' = [job EXCEPT ![a] = j] /\ j.at = "fulfil"
              /\ j.req = job[a].req /\ j.seen = job[a].seen
  <2>1. Goto(a, "fulfil")
    BY <1>1, <1>2, <1>3, IdleJob DEF HandleDelivered
  <2> QED  BY <2>1, GoesOn
<1>5. Rows'
  BY <1>1, <1>2 DEF HandleDelivered, Transition, Rows, PaidAsStatus, Midway, MidwayPaying
<1>6. Midway(j)'
  BY <1>1, <1>2, <1>4, <1>5 DEF HandleDelivered, Transition, Midway, MidwayPaying,
     MidwayFailing, PayAgrees, ChkAgrees, NoRefundDue
<1> QED  BY <1>3, <1>4, <1>5, <1>6, KeepsCalm, IdleJob

LEMMA FulfillOnDeliveryCalm ==
    ASSUME TypeInv, Serial, crashes' = 0, NEW a \in Actors, FulfillOnDelivery(a)
    PROVE  Serial'
<1>1. UNCHANGED crashes /\ job[a].at = "fulfil"
  BY DEF FulfillOnDelivery, At
<1>2. Rows /\ Midway(job[a]) /\ job[a] \in Jobs
  BY <1>1, AtWork
<1>3. \A b \in Actors : b # a => job[b] = Idle
  BY <1>1, AtWork
<1>4. PICK j : /\ job' = [job EXCEPT ![a] = j] /\ j.at = "completeOrder"
              /\ j.req = job[a].req /\ j.seen = job[a].seen
  <2>1. Goto(a, "completeOrder")
    BY <1>1 DEF FulfillOnDelivery
  <2> QED  BY <2>1, GoesOn
<1>5. Rows'
  BY <1>1, <1>2 DEF FulfillOnDelivery, Settle, Rows, PaidAsStatus
<1>6. Midway(j)'
  BY <1>1, <1>2, <1>4, <1>5 DEF FulfillOnDelivery, Settle, Rows, Midway, MidwayPaying,
     MidwayFailing, PayAgrees, ChkAgrees, NoRefundDue
<1> QED  BY <1>3, <1>4, <1>5, <1>6, KeepsCalm, IdleJob

LEMMA FinalizeOrderRewardsCalm ==
    ASSUME TypeInv, Serial, crashes' = 0, NEW a \in Actors, FinalizeOrderRewards(a)
    PROVE  Serial'
<1>1. UNCHANGED crashes /\ job[a].at = "completeOrder"
  BY DEF FinalizeOrderRewards, At
<1>2. Rows /\ Midway(job[a]) /\ job[a] \in Jobs
  BY <1>1, AtWork
<1>3. \A b \in Actors : b # a => job[b] = Idle
  BY <1>1, AtWork
<1>4. PICK j : job' = [job EXCEPT ![a] = j] /\ j = Idle
  BY <1>1 DEF FinalizeOrderRewards, Done
<1>5. Rows'
  BY <1>1, <1>2 DEF FinalizeOrderRewards, Transition, Rows, PaidAsStatus, Midway,
     MidwayPaying, Cancelled, Served, OrderRow
<1>6. Story'
  BY <1>1, <1>2, <1>4, <1>5 DEF FinalizeOrderRewards, Transition, Midway, MidwayPaying, Story,
     PayAgrees, ChkAgrees, HoldAgrees, RefundAgrees, Whole, NoRefundDue, Cancelled, OrderRow
<1> QED  BY <1>3, <1>4, <1>5, <1>6, KeepsCalm, IdleJob

LEMMA ReserveInventoryCalm ==
    ASSUME TypeInv, Serial, crashes' = 0, NEW a \in Actors, ReserveInventory(a)
    PROVE  Serial'
<1>1. UNCHANGED crashes /\ job[a].at = "reserve"
  BY DEF ReserveInventory, At
<1>2. Rows /\ Midway(job[a]) /\ \A b \in Actors : b # a => job[b] = Idle
  BY <1>1, AtWork
<1>3. Rows'
  BY <1>1, <1>2 DEF ReserveInventory, Rows, PaidAsStatus, Midway, MidwayPaying, Fresh
<1>a. CASE Goto(a, "order") /\ hold' = "ACTIVE" /\ UNCHANGED chk
  <2>1. PICK j : /\ job' = [job EXCEPT ![a] = j] /\ j.at = "order"
                /\ j.req = job[a].req /\ j.seen = job[a].seen
    BY <1>a, GoesOn
  <2>2. Midway(j)'
    BY <1>1, <1>2, <1>a, <2>1 DEF ReserveInventory, Midway, MidwayPaying, MidwayFailing, Fresh
  <2> QED  BY <1>2, <1>3, <2>1, <2>2, KeepsCalm
<1>b. CASE Done(a) /\ chk' = "EXPIRED" /\ UNCHANGED hold
  <2>1. Story'
    BY <1>1, <1>2, <1>b DEF ReserveInventory, Rows, PaidAsStatus, Midway, MidwayPaying, Story,
       PayAgrees, ChkAgrees, HoldAgrees, RefundAgrees, Whole, Settled
  <2> QED  BY <1>2, <1>3, <1>b, <2>1, EndsCalm
<1> QED  BY <1>a, <1>b DEF ReserveInventory

LEMMA ReadPaymentCalm ==
    ASSUME TypeInv, Serial, crashes' = 0, NEW a \in Actors, ReadPayment(a)
    PROVE  Serial'
<1>1. UNCHANGED crashes /\ job[a].at = "payment"
  BY DEF ReadPayment, At
<1>2. Rows /\ Midway(job[a]) /\ \A b \in Actors : b # a => job[b] = Idle
  BY <1>1, AtWork
<1>3. UNCHANGED <<age, chk, chkOrder, hold, linked, order, pay, refund>>
  BY DEF ReadPayment
<1>4. Rows' /\ Story' /\ Story /\ chk = "RESERVED"
  BY <1>1, <1>2, <1>3 DEF Rows, PaidAsStatus, Midway, MidwayPaying, Story, PayAgrees,
     ChkAgrees, HoldAgrees, RefundAgrees, Whole
<1>a. CASE Done(a)
  BY <1>2, <1>4, <1>a, EndsCalm
<1>b. CASE Goto(a, "replay") /\ pay.status = "PAID"
  <2>1. PICK j : job' = [job EXCEPT ![a] = j] /\ j.at = "replay"
    BY <1>b, GoesOn
  <2>2. Midway(j)'
    BY <1>3, <1>4, <1>b, <2>1 DEF Midway, MidwayPaying, MidwayFailing
  <2> QED  BY <1>2, <1>4, <2>1, <2>2, KeepsCalm
<1>c. CASE /\ pay.rzp # NoRzp
           /\ job' = [job EXCEPT ![a] = Job(job[a].req,
                         IF job[a].req = "verify" THEN "finalize" ELSE "fetch",
                         pay.rzp, job[a].seen)]
  <2>1. PICK j : job' = [job EXCEPT ![a] = j] /\ j.at \in {"finalize", "fetch"}
    <3> WITNESS Job(job[a].req, IF job[a].req = "verify" THEN "finalize" ELSE "fetch",
                    pay.rzp, job[a].seen)
    <3> QED  BY <1>c DEF Job
  <2>2. Midway(j)'
    BY <1>3, <1>4, <1>c, <2>1 DEF Midway, MidwayPaying, MidwayFailing
  <2> QED  BY <1>2, <1>4, <2>1, <2>2, KeepsCalm
<1>5. job[a].req = "verify" => job[a].id # NoRzp
  BY <1>1, <1>2 DEF Midway, MidwayPaying
<1> QED  BY <1>5, <1>a, <1>b, <1>c DEF ReadPayment

-----------------------------------------------------------------------------
(* The handlers' first actions: what they check before they start is what  *)
(* their first statement may rely on.                                      *)

(* A handler that starts without writing a row. *)
LEMMA StartsCalm ==
    ASSUME TypeInv, Serial, crashes' = 0, UNCHANGED crashes, MaxJobs = 1,
           NEW a \in Actors, NEW req, NEW at, NEW id, NEW seen, Begin(a, req, at, id, seen),
           UNCHANGED <<age, chk, chkOrder, hold, linked, order, pay, refund>>,
           at # "idle", Rows /\ Story => Midway(Job(req, at, id, seen))
    PROVE  Serial'
<1> DEFINE j == Job(req, at, id, seen)
<1>1. j.at = at
  BY DEF Job
<1>2. Rows /\ Midway(j) /\ \A b \in Actors : job[b] = Idle
  BY AtRest
<1>3. job' = [job EXCEPT ![a] = j]
  BY DEF Begin
<1> HIDE DEF j
<1>4. Rows'
  BY <1>2 DEF Rows, PaidAsStatus
<1>5. Midway(j)'
  BY <1>2 DEF Midway, MidwayPaying, MidwayFailing, Story, PayAgrees, ChkAgrees, HoldAgrees,
     RefundAgrees, Whole, Fresh, Unpaid, NoRefundDue, ToRefund
<1> QED  BY <1>1, <1>2, <1>3, <1>4, <1>5, KeepsCalm

LEMMA StartPaymentStarts ==
    ASSUME TypeInv, Serial, crashes' = 0, MaxJobs = 1, NEW a \in Workers,
           StartPayment(a)
    PROVE  Serial'
<1>1. /\ Begin(a, "pay", "upsert", NoRzp, "NONE")
      /\ UNCHANGED <<age, chk, chkOrder, hold, linked, order, pay, refund, crashes>>
      /\ a \in Actors
  BY DEF StartPayment, Actors
<1>2. ASSUME Rows, Story PROVE Midway(Job("pay", "upsert", NoRzp, "NONE"))
  BY <1>2 DEF StartPayment, Job, Rows, Midway, MidwayPaying, MidwayFailing, Story, PayAgrees
<1> QED  BY <1>1, <1>2, StartsCalm

LEMMA VerifyPaymentStarts ==
    ASSUME TypeInv, Serial, crashes' = 0, MaxJobs = 1, NEW a \in Workers,
           NEW v \in RzpOrders, VerifyPayment(a, v)
    PROVE  Serial'
<1>1. /\ Begin(a, "verify", "payment", v, "NONE")
      /\ UNCHANGED <<age, chk, chkOrder, hold, linked, order, pay, refund, crashes>>
      /\ a \in Actors
  BY NoRzpAssumption DEF VerifyPayment, Actors
<1>2. ASSUME Rows, Story PROVE Midway(Job("verify", "payment", v, "NONE"))
  BY <1>2, NoRzpAssumption DEF VerifyPayment, Job, Midway, MidwayPaying, MidwayFailing
<1> QED  BY <1>1, <1>2, StartsCalm

LEMMA SyncPaymentStarts ==
    ASSUME TypeInv, Serial, crashes' = 0, MaxJobs = 1, NEW a \in Workers,
           SyncCheckoutPayment(a)
    PROVE  Serial'
<1>1. /\ Begin(a, "sync", "payment", NoRzp, "NONE")
      /\ UNCHANGED <<age, chk, chkOrder, hold, linked, order, pay, refund, crashes>>
      /\ a \in Actors
  BY DEF SyncCheckoutPayment, Actors
<1>2. ASSUME Rows, Story PROVE Midway(Job("sync", "payment", NoRzp, "NONE"))
  BY <1>2 DEF SyncCheckoutPayment, Job, Midway, MidwayPaying, MidwayFailing
<1> QED  BY <1>1, <1>2, StartsCalm

LEMMA StartCancelStarts ==
    ASSUME TypeInv, Serial, crashes' = 0, MaxJobs = 1, NEW a \in Workers,
           NEW who \in Cancellers, StartCancel(a, who)
    PROVE  Serial'
<1>1. /\ Begin(a, who, "cancel", NoRzp, order.paid)
      /\ UNCHANGED <<age, chk, chkOrder, hold, linked, order, pay, refund, crashes>>
      /\ a \in Actors
  BY DEF StartCancel, Actors
<1>2. ASSUME Rows, Story PROVE Midway(Job(who, "cancel", NoRzp, order.paid))
  BY <1>2 DEF StartCancel, Cancellable, Job, Midway, MidwayPaying, MidwayFailing, Underway
<1> QED  BY <1>1, <1>2, StartsCalm

LEMMA AdvanceStarts ==
    ASSUME TypeInv, Serial, crashes' = 0, MaxJobs = 1, NEW a \in Workers,
           AdvanceMerchantOrder(a)
    PROVE  Serial'
<1>1. /\ Begin(a, "advance", "advance", NoRzp, Forward[order.status])
      /\ UNCHANGED <<age, chk, chkOrder, hold, linked, order, pay, refund, crashes>>
      /\ a \in Actors
  BY DEF AdvanceMerchantOrder, Actors
<1>2. ASSUME Rows, Story PROVE Midway(Job("advance", "advance", NoRzp, Forward[order.status]))
  BY <1>2 DEF AdvanceMerchantOrder, Forward, Job, Midway, MidwayPaying, MidwayFailing,
     Underway
<1> QED  BY <1>1, <1>2, StartsCalm

LEMMA ReservationCronStarts ==
    ASSUME TypeInv, Serial, crashes' = 0, MaxJobs = 1, NEW a, a = "reservation-cron",
           ReleaseExpiredReservations
    PROVE  Serial'
<1>1. /\ Begin(a, "reservation-cron", "release", NoRzp,
            IF chkOrder THEN order.status ELSE "NONE")
      /\ UNCHANGED <<age, chk, chkOrder, hold, linked, order, pay, refund, crashes>>
      /\ a \in Actors
  BY DEF ReleaseExpiredReservations, Actors, Crons
<1>2. ASSUME Rows, Story PROVE
        Midway(Job("reservation-cron", "release", NoRzp, IF chkOrder THEN order.status ELSE "NONE"))
  BY <1>2 DEF ReleaseExpiredReservations, Job, Rows, PaidAsStatus, Midway, MidwayPaying,
     MidwayFailing, Story, ChkAgrees, HoldAgrees, Whole, Unpaid, NoRefundDue, Settled, Ended,
     TypeInv, TypeOK, OrderStatus, RefundStatus
<1> QED  BY <1>1, <1>2, StartsCalm

LEMMA StaleOrdersStarts ==
    ASSUME TypeInv, Serial, crashes' = 0, MaxJobs = 1, NEW a, a = "reservation-cron",
           CancelStalePaymentPendingOrders
    PROVE  Serial'
<1>1. /\ Begin(a, "reservation-cron", "pending", NoRzp, "NONE")
      /\ UNCHANGED <<age, chk, chkOrder, hold, linked, order, pay, refund, crashes>>
      /\ a \in Actors
  BY DEF CancelStalePaymentPendingOrders, Actors, Crons
<1>2. ASSUME Rows, Story PROVE Midway(Job("reservation-cron", "pending", NoRzp, "NONE"))
  BY <1>2 DEF CancelStalePaymentPendingOrders, Job, Rows, PaidAsStatus, Midway, MidwayPaying,
     MidwayFailing, Story, Unpaid, NoRefundDue, TypeInv, TypeOK, RefundStatus
<1> QED  BY <1>1, <1>2, StartsCalm

LEMMA OrderExpiryStarts ==
    ASSUME TypeInv, Serial, crashes' = 0, MaxJobs = 1, NEW a, a = "order-expiry",
           ExpireOne
    PROVE  Serial'
<1>1. /\ Begin(a, "order-expiry", "releaseOrder", NoRzp, "NONE")
      /\ UNCHANGED <<age, chk, chkOrder, hold, linked, order, pay, refund, crashes>>
      /\ a \in Actors
  BY DEF ExpireOne, Actors, Crons
<1>2. ASSUME Rows, Story PROVE Midway(Job("order-expiry", "releaseOrder", NoRzp, "NONE"))
  BY <1>2 DEF ExpireOne, Job, Rows, PaidAsStatus, Midway, MidwayPaying, MidwayFailing, Story,
     ChkAgrees, Whole, Unpaid, NoRefundDue, Settled, TypeInv, TypeOK, RefundStatus
<1> QED  BY <1>1, <1>2, StartsCalm

LEMMA CapturedStarts ==
    ASSUME TypeInv, Serial, crashes' = 0, MaxJobs = 1, NEW a \in Workers,
           NEW v \in RzpOrders, HandlePaymentCaptured(a, v)
    PROVE  Serial'
<1>1. /\ Begin(a, "captured", IF pay.rzp = v /\ pay.status # "PAID"
                              THEN "capture" ELSE "processed", v, "NONE")
      /\ UNCHANGED <<age, chk, chkOrder, hold, linked, order, pay, refund, crashes>>
      /\ a \in Actors
  BY NoRzpAssumption DEF HandlePaymentCaptured, money, Actors, ClaimEvent
<1>2. ASSUME Rows, Story PROVE
        Midway(Job("captured", IF pay.rzp = v /\ pay.status # "PAID"
                               THEN "capture" ELSE "processed", v, "NONE"))
  BY <1>2, NoRzpAssumption DEF HandlePaymentCaptured, Job, Midway, MidwayPaying, MidwayFailing
<1> QED  BY <1>1, <1>2, StartsCalm

LEMMA FailedStarts ==
    ASSUME TypeInv, Serial, crashes' = 0, MaxJobs = 1, NEW a \in Workers,
           NEW v \in RzpOrders, HandlePaymentFailed(a, v)
    PROVE  Serial'
<1>1. /\ Begin(a, "failed", IF pay.rzp = v /\ pay.status = "PENDING"
                            THEN "failPayment" ELSE "processed", v, "NONE")
      /\ UNCHANGED <<age, chk, chkOrder, hold, linked, order, pay, refund, crashes>>
      /\ a \in Actors
  BY NoRzpAssumption DEF HandlePaymentFailed, money, Actors, ClaimEvent
<1>2. ASSUME Rows, Story PROVE
        Midway(Job("failed", IF pay.rzp = v /\ pay.status = "PENDING"
                             THEN "failPayment" ELSE "processed", v, "NONE"))
  BY <1>2, NoRzpAssumption DEF HandlePaymentFailed, Job, Midway, MidwayPaying, MidwayFailing
<1> QED  BY <1>1, <1>2, StartsCalm

LEMMA CreateCheckoutStarts ==
    ASSUME TypeInv, Serial, crashes' = 0, MaxJobs = 1, NEW a \in Workers, CreateCheckout(a)
    PROVE  Serial'
<1> DEFINE j == Job("initiate", "reserve", NoRzp, "NONE")
<1>1. Begin(a, "initiate", "reserve", NoRzp, "NONE") /\ a \in Actors /\ UNCHANGED crashes
  BY DEF CreateCheckout, Actors
<1>2. Rows /\ Story /\ \A b \in Actors : job[b] = Idle
  BY <1>1, AtRest
<1>3. job' = [job EXCEPT ![a] = j] /\ j.at = "reserve"
  BY <1>1 DEF Begin, Job
<1> HIDE DEF j
<1>4. Rows' /\ Midway(j)'
  BY <1>2, <1>3 DEF CreateCheckout, Rows, PaidAsStatus, Midway, MidwayPaying, MidwayFailing,
     Story, Whole, Fresh
<1> QED  BY <1>1, <1>2, <1>3, <1>4, KeepsCalm

LEMMA RetryStarts ==
    ASSUME TypeInv, Serial, crashes' = 0, MaxJobs = 1, RetryFailedRefunds
    PROVE  Serial'
<1> DEFINE j == Job("refund-retry", "money", NoRzp, "NONE")
           a == "refund-retry"
<1>1. Begin(a, "refund-retry", "money", NoRzp, "NONE") /\ a \in Actors /\ UNCHANGED crashes
  BY DEF RetryFailedRefunds, Actors, Crons
<1>2. Rows /\ Story /\ \A b \in Actors : job[b] = Idle
  BY <1>1, AtRest
<1>3. job' = [job EXCEPT ![a] = j] /\ j.at = "money"
  BY <1>1 DEF Begin, Job
<1> HIDE DEF j, a
<1>4. Rows' /\ Midway(j)'
  BY <1>2, <1>3 DEF RetryFailedRefunds, Rows, PaidAsStatus, Midway, MidwayPaying,
     MidwayFailing, Story, PayAgrees, ChkAgrees, HoldAgrees, ToRefund, Settled, Ended, Dead
<1> QED  BY <1>1, <1>2, <1>3, <1>4, KeepsCalm

(* Time, and what happens at Razorpay, change no row. *)
LEMMA TimeCalm ==
    ASSUME TypeInv, Serial, crashes' = 0, age' \in 0..2, age <= age',
           UNCHANGED <<chk, chkOrder, hold, linked, order, pay, refund, job, crashes>>
    PROVE  Serial'
<1>1. Calm
  BY DEF Serial
<1>0. age > 0 => age' > 0
  BY DEF TypeInv, TypeOK
<1>2. Rows'
  BY <1>1 DEF Calm, Rows, PaidAsStatus
<1>3. Story => Story'
  BY <1>0 DEF Story, PayAgrees, ChkAgrees, HoldAgrees, RefundAgrees, Whole, Fresh, Unpaid,
     NoRefundDue, ToRefund, Cancellers, Underway, Served
<1>4. ASSUME NEW a \in Actors, Midway(job[a]) PROVE Midway(job[a])'
  <2>1. PICK j : j = job[a]
    OBVIOUS
  <2>2. Midway(j)
    BY <1>4, <2>1
  <2>3. Midway(j)'
    BY <1>0, <2>2 DEF Midway, MidwayPaying, MidwayFailing, Story, PayAgrees, ChkAgrees,
       HoldAgrees, RefundAgrees, Whole, Fresh, Unpaid, NoRefundDue, ToRefund
  <2> QED  BY <2>1, <2>3
<1> QED  BY <1>1, <1>2, <1>3, <1>4 DEF Serial, Calm

-----------------------------------------------------------------------------
(* The theorem. *)

LEMMA SerialInit == Init => Serial
<1> SUFFICES ASSUME Init PROVE Serial
  OBVIOUS
<1>1. Idle.at = "idle" /\ \A a \in Actors : job[a] = Idle
  BY IdleJob DEF Init
<1>2. Rows /\ Story
  BY DEF Init, Rows, PaidAsStatus, Story, PayAgrees, ChkAgrees, HoldAgrees, RefundAgrees,
     Whole, Settled, Ended, Dead, Cancelled, Served, OrderRow, PayRow
<1> QED  BY <1>1, <1>2 DEF Serial, Calm

LEMMA SerialStep ==
    ASSUME MaxJobs = 1, "WALLET" \notin Methods, TypeInv, Serial, [Next]_vars, TypeInv'
    PROVE  Serial'
<1> SUFFICES ASSUME crashes' = 0 PROVE Serial'
  BY DEF Serial
<1>1. ASSUME NEW a \in Actors, Continue(a) PROVE Serial'
  BY <1>1, ReserveInventoryCalm, CreateOrderFromCheckoutCalm, LinkReservationsCalm,
     MarkReservedCalm, UpsertPaymentCalm, ReadPaymentCalm, ReplayCompletedCalm,
     FetchOrderPaymentsCalm, FinalizeOnlinePaymentCalm, OrderPaidCalm, CapturePaymentCalm,
     CompleteCheckoutCalm, MarkProcessedCalm, FailPaymentCalm, FailOrderCalm,
     ReleaseReservationsCalm, ExpireCheckoutCalm, ReadPendingOrderCalm, FailPendingPaymentCalm,
     ReleaseOrderReservationsCalm, ExpireOrderCalm, CancelOrderCalm, InitiateRefundCalm,
     RefundMoneyCalm, MarkPaymentRefundedCalm, WriteAdvanceCalm, HandleDeliveredCalm,
     FulfillOnDeliveryCalm, FinalizeOrderRewardsCalm DEF Continue
<1>2. ASSUME NEW w \in Workers, Arrive(w) PROVE Serial'
  BY <1>2, CreateCheckoutStarts, StartPaymentStarts, SyncPaymentStarts, AdvanceStarts,
     VerifyPaymentStarts, CapturedStarts, FailedStarts, StartCancelStarts DEF Arrive
<1>3. ASSUME CronTick PROVE Serial'
  BY <1>3, ReservationCronStarts, StaleOrdersStarts, OrderExpiryStarts, RetryStarts
     DEF CronTick
<1>4. ASSUME NEW id \in RzpOrders, DeclineAttempt(id) \/ CaptureAttempt(id) PROVE Serial'
  <2>1. /\ age' \in 0..2 /\ age <= age'
        /\ UNCHANGED <<chk, chkOrder, hold, linked, order, pay, refund, job, crashes>>
    BY <1>4 DEF DeclineAttempt, CaptureAttempt, TypeInv, TypeOK
  <2> QED  BY <2>1, TimeCalm
<1>5. ASSUME Tick PROVE Serial'
  <2>1. /\ age' \in 0..2 /\ age <= age'
        /\ UNCHANGED <<chk, chkOrder, hold, linked, order, pay, refund, job, crashes>>
    BY <1>5 DEF Tick, TypeInv, TypeOK
  <2> QED  BY <2>1, TimeCalm
<1>6. ASSUME NEW a \in Actors, Crash(a) PROVE Serial'
  <2>1. crashes' # 0
    BY <1>6 DEF Crash, TypeInv, TypeOK
  <2> QED  BY <2>1
<1>7. CASE UNCHANGED vars
  <2>1. /\ age' \in 0..2 /\ age <= age'
        /\ UNCHANGED <<chk, chkOrder, hold, linked, order, pay, refund, job, crashes>>
    BY <1>7 DEF vars, TypeInv, TypeOK
  <2> QED  BY <2>1, TimeCalm
<1> QED  BY <1>1, <1>2, <1>3, <1>4, <1>5, <1>6, <1>7 DEF Next

(* Between handlers of an online order that neither overlap nor die, order, *)
(* payment, checkout, reservation and refund tell one story, for any number *)
(* of workers and gateway orders: money that is captured late, a webhook    *)
(* that repeats what verifyPayment has done, and crons that come in between *)
(* included.                                                                *)
THEOREM SerialTablesAgree ==
    ASSUME MaxJobs = 1, "WALLET" \notin Methods
    PROVE  Spec => []TablesAgree
<1>1. Serial => TablesAgree
  <2> SUFFICES ASSUME Calm, Busy = {} PROVE
        /\ pay.status # "NONE" => order.paid = pay.status
        /\ chk = "COMPLETED" <=> order.paid \in {"PAID", "REFUNDED"}
        /\ order.status \in Dead \cup {"DELIVERED", "COMPLETED"} => hold # "ACTIVE"
        /\ order.status \in Cancelled /\ order.paid = "PAID" => refund # "NONE"
    BY DEF Serial, TablesAgree
  <2>1. Story
    BY DEF Busy, Calm
  <2> QED  BY <2>1 DEF Story, PayAgrees, ChkAgrees, HoldAgrees, RefundAgrees, Settled, Ended
<1>2. TypeInv /\ Serial /\ [Next]_vars => TypeInv' /\ Serial'
  BY TypeStep, SerialStep
<1> QED  BY <1>1, <1>2, TypeInit, SerialInit, PTL DEF Spec
=============================================================================
