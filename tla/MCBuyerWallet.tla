---------------------------- MODULE MCBuyerWallet ----------------------------
(* A small instance of BuyerWallet for TLC. *)
EXTENDS BuyerWallet, TLC

CONSTANTS o1, o2, o3, none, buyer, job1

Start1 == [balance |-> 2, points |-> 2]
Wishes == o1 :> 2 @@ o2 :> 1 @@ o3 :> 1
Redeems == o1 :> 1 @@ o2 :> 0 @@ o3 :> 0
Cashbacks == o1 :> 1 @@ o2 :> 0 @@ o3 :> 0
Bonuses == o1 :> 1 @@ o2 :> 2 @@ o3 :> 0
Earnings == o1 :> 1 @@ o2 :> 1 @@ o3 :> 1
Claims == o1 :> 1 @@ o2 :> 0 @@ o3 :> 0

Symmetry == Permutations({buyer, job1})
=============================================================================
