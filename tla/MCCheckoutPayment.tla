------------------------- MODULE MCCheckoutPayment -------------------------
(* Small instances of CheckoutPayment for TLC. *)
EXTENDS CheckoutPayment, TLC

CONSTANTS w1, w2, rzp1, rzp2

Symmetry == Permutations(Workers) \cup Permutations(RzpOrders)
=============================================================================
