------------------------ MODULE ReservationLifecycle ------------------------
(***************************************************************************)
(* What the inventory promises about a checkout's reservations, whatever   *)
(* requests, cron jobs and crashes interleave: they are taken once, in one *)
(* transaction, and settled once, into exactly one of the three final      *)
(* statuses of ReservationStatus.  Inventory is shown to implement it; the *)
(* one-step release of CheckoutPayment takes it for granted.               *)
(***************************************************************************)
CONSTANT Checkouts

VARIABLE hold       \* hold[c]: the status shared by the reservations of c

FinalStatus == {"EXPIRED", "RELEASED", "CONSUMED"}

Init == hold = [c \in Checkouts |-> "NONE"]

Take(c) == /\ hold[c] = "NONE"
           /\ hold' = [hold EXCEPT ![c] = "ACTIVE"]

Settle(c) == /\ hold[c] = "ACTIVE"
             /\ \E s \in FinalStatus : hold' = [hold EXCEPT ![c] = s]

Next == \E c \in Checkouts : Take(c) \/ Settle(c)

Spec == Init /\ [][Next]_hold
=============================================================================
