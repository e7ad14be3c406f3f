---------------------------- MODULE MCInventory ----------------------------
(* Small instances of Inventory for TLC. *)
EXTENDS Inventory, TLC

CONSTANTS milk, rice, c1, c2, w1, w2

(* Two carts compete for milk with unequal quantities; one also has rice. *)
UnequalDemand ==
    (c1 :> (milk :> 2 @@ rice :> 0)) @@ (c2 :> (milk :> 1 @@ rice :> 1))

WorkerSymmetry == Permutations(Workers)
=============================================================================
