---------------------------- MODULE BuyerWallet ----------------------------
(***************************************************************************)
(* A buyer's wallet: money and reward points.                              *)
(* apps/api/src/modules/wallet-loyalty/{wallet,reward,wallet-loyalty-      *)
(* checkout}.service.ts and the parts of checkout/checkout.service.ts,     *)
(* order-claim/claim-refund.service.ts and                                 *)
(* wallet-loyalty/admin-rewards.controller.ts that use it.                 *)
(*                                                                         *)
(* A checkout redeems points and pays with the wallet in the transaction   *)
(* that creates the order, then credits a cashback and bonus points in     *)
(* transactions of their own; a completed order earns points; a cancelled  *)
(* one is given back; a claim and an administrator credit the wallet.      *)
(*                                                                         *)
(* Every change reads the row of buyer_wallets, computes the new value and *)
(* writes it.  The transactions run READ COMMITTED, so the row may change  *)
(* between the read and the write; after its first write a transaction     *)
(* holds the row until it commits, and what it reads then is current.      *)
(* Unique keys of wallet_transactions and reward_transactions make the     *)
(* second writer of a key fail and roll back.  Lifetime points and the     *)
(* tier they give are left out.                                            *)
(***************************************************************************)
EXTENDS Integers, FiniteSets, Functions

CONSTANTS Orders,          \* the buyer's orders
          None,            \* null
          Actors,          \* handlers under way at a time
          Opening,         \* what earlier rows have left: [balance, points]
          Wish,            \* Wish[o]: wallet money the buyer wants to spend on o
          Redeem,          \* Redeem[o]: points he wants to redeem on o
          Cashback, Bonus, \* what o's offer pays, in money and in points
          Earns,           \* Earns[o]: points o earns once it is completed
          Claimed,         \* Claimed[o]: what a claim on o gives back
          Adjustments,     \* amounts an administrator credits or debits
          MaxAdjustments,  \* bound: adjustments made
          MaxFaults        \* bound: handlers that overlap another, or die

Amounts == [Orders -> Nat]

ASSUME NoneAssumption == None \notin Orders
ASSUME FinitelyManyOrders == IsFiniteSet(Orders)
ASSUME AmountAssumption ==
    /\ Opening \in [balance : Nat, points : Nat]
    /\ Wish \in Amounts /\ Redeem \in Amounts /\ Cashback \in Amounts
    /\ Bonus \in Amounts /\ Earns \in Amounts /\ Claimed \in Amounts
    /\ Adjustments \subseteq Nat \ {0}
ASSUME BoundAssumption == MaxAdjustments \in Nat /\ MaxFaults \in Nat

VARIABLES
    wallet,    \* the row of buyer_wallets
    order,     \* order[o]: status, walletAmountUsed and rewardPointsUsed
    money,     \* money[k][o]: amount of the wallet_transactions row k:o (0: none)
    reward,    \* reward[o]: the reward_transactions row whose orderId is o
    restored,  \* orders with a row refund-points:o
    adjusted,  \* sums of the administrators' rows
    taken,     \* taken[o]: history: earned points taken back (no row is made)
    job,       \* job[a]: the next step of handler a
    manual,    \* adjustments made, bounded by MaxAdjustments
    faults,    \* bounded by MaxFaults
    calm       \* history: no handler overlapped another or died

vars == <<wallet, order, money, reward, restored, adjusted, taken, job, manual, faults, calm>>
rows == <<order, money, reward, restored, adjusted, taken>>

Keys == {"wallet-debit", "offer-cashback", "refund-wallet", "claim-wallet"}
OrderStatus == {"NONE", "PLACED", "COMPLETED", "CANCELLED"}
RewardType == {"NONE", "REDEEM", "EARN"}
Steps == {"idle", "deduct", "pay", "lookup", "credit", "bonus", "add bonus", "earn",
          "unearn", "adjust", "adjust points"}

Wallet == [balance : Nat, points : Int]
Order == [status : OrderStatus, wallet : Nat, points : Nat]
Reward == [type : RewardType, points : Nat]
(* k names the row a credit writes; n and m are an amount and points; seen *)
(* is the wallet as the handler has read it.                               *)
Job == [at : Steps, k : Keys, o : Orders \cup {None}, n : Int, m : Int,
        seen : [balance : Nat, points : Int]]

NoJob == [at |-> "idle", k |-> "wallet-debit", o |-> None, n |-> 0, m |-> 0,
          seen |-> [balance |-> 0, points |-> 0]]
Seen == [balance |-> wallet.balance, points |-> wallet.points]

TypeOK ==
    /\ wallet \in Wallet
    /\ order \in [Orders -> Order]
    /\ money \in [Keys -> [Orders -> Nat]]
    /\ reward \in [Orders -> Reward]
    /\ restored \subseteq Orders
    /\ adjusted \in [balance : Int, points : Int]
    /\ taken \in [Orders -> Nat]
    /\ job \in [Actors -> Job]
    /\ manual \in 0..MaxAdjustments
    /\ faults \in 0..MaxFaults
    /\ calm \in BOOLEAN

Init ==
    /\ wallet = Opening
    /\ order = [o \in Orders |-> [status |-> "NONE", wallet |-> 0, points |-> 0]]
    /\ money = [k \in Keys |-> [o \in Orders |-> 0]]
    /\ reward = [o \in Orders |-> [type |-> "NONE", points |-> 0]]
    /\ restored = {}
    /\ adjusted = [balance |-> 0, points |-> 0]
    /\ taken = [o \in Orders |-> 0]
    /\ job = [a \in Actors |-> NoJob]
    /\ manual = 0
    /\ faults = 0
    /\ calm = TRUE

Quiet == \A a \in Actors : job[a] = NoJob

Start(a, next) ==
    /\ job[a] = NoJob
    /\ IF Quiet THEN UNCHANGED <<faults, calm>>
                ELSE faults < MaxFaults /\ faults' = faults + 1 /\ calm' = FALSE
    /\ job' = [job EXCEPT ![a] = next]

Go(a, next) == job' = [job EXCEPT ![a] = next] /\ UNCHANGED <<faults, calm>>
End(a) == Go(a, NoJob)

At(step, o) == [NoJob EXCEPT !.at = step, !.o = o]
CreditOf(k, o, n) == [At("lookup", o) EXCEPT !.k = k, !.n = n]

-----------------------------------------------------------------------------
(* Checkout *)

(* What follows the order in createOrderFromCheck's then. *)
AfterCashback(o) == IF Bonus[o] > 0 THEN At("bonus", o) ELSE NoJob
AfterOrder(o) ==
    IF Cashback[o] > 0 THEN CreditOf("offer-cashback", o, Cashback[o]) ELSE AfterCashback(o)

(* computeCheckoutPayment plans with the wallet as it is. *)
PlanCheckout(a, o) ==
    /\ order[o].status = "NONE" /\ \A b \in Actors : job[b].o # o
    /\ Redeem[o] <= wallet.points
    /\ LET n == IF Wish[o] <= wallet.balance THEN Wish[o] ELSE wallet.balance IN
       Start(a, [At("deduct", o) EXCEPT !.n = n, !.m = Redeem[o]])
    /\ UNCHANGED <<wallet, manual, rows>>

(* applyCheckoutDeductions reads the wallet in the order's transaction:    *)
(* redeemPoints does if points are redeemed, else debitWallet.             *)
ReadForOrder(a) ==
    /\ job[a].at = "deduct"
    /\ LET n == job[a].n  m == job[a].m IN
       IF (m > 0 /\ wallet.points < m) \/ (m = 0 /\ wallet.balance < n)
       THEN End(a)
       ELSE Go(a, [job[a] EXCEPT !.at = "pay", !.seen = Seen])
    /\ UNCHANGED <<wallet, manual, rows>>

(* The transaction writes and commits.  If points are redeemed, their      *)
(* write locks the wallet, and debitWallet then sees it as it is.          *)
PayOrder(a) ==
    /\ job[a].at = "pay"
    /\ LET o == job[a].o  n == job[a].n  m == job[a].m IN
       IF m > 0 /\ wallet.balance < n
       THEN End(a) /\ UNCHANGED <<wallet, order, money, reward>>
       ELSE /\ order' = [order EXCEPT ![o] = [status |-> "PLACED", wallet |-> n, points |-> m]]
            /\ money' = [money EXCEPT !["wallet-debit"][o] = n]
            /\ IF m > 0
               THEN /\ wallet' = [wallet EXCEPT !.points = job[a].seen.points - m,
                                                !.balance = @ - n]
                    /\ reward' = [reward EXCEPT ![o] = [type |-> "REDEEM", points |-> m]]
               ELSE /\ wallet' = IF n = 0 THEN wallet
                                 ELSE [wallet EXCEPT !.balance = job[a].seen.balance - n]
                    /\ UNCHANGED reward
            /\ Go(a, AfterOrder(o))
    /\ UNCHANGED <<restored, adjusted, taken, manual>>

(* The offer's bonus points: a row with the order's id.  An order whose    *)
(* points were redeemed has one already: the checkout fails here.          *)
ReadForBonus(a) ==
    /\ job[a].at = "bonus"
    /\ Go(a, [job[a] EXCEPT !.at = "add bonus", !.seen = Seen])
    /\ UNCHANGED <<wallet, manual, rows>>

AddBonus(a) ==
    /\ job[a].at = "add bonus"
    /\ LET o == job[a].o IN
       IF reward[o].type = "NONE"
       THEN /\ wallet' = [wallet EXCEPT !.points = job[a].seen.points + Bonus[o]]
            /\ reward' = [reward EXCEPT ![o] = [type |-> "EARN", points |-> Bonus[o]]]
       ELSE UNCHANGED <<wallet, reward>>
    /\ End(a)
    /\ UNCHANGED <<order, money, restored, adjusted, taken, manual>>

-----------------------------------------------------------------------------
(* Credits: the cashback, a refunded order, a refunded claim *)

CancelOrder(o) ==
    /\ order[o].status = "PLACED"
    /\ order' = [order EXCEPT ![o].status = "CANCELLED"]
    /\ UNCHANGED <<wallet, money, reward, restored, adjusted, taken, job, manual, faults, calm>>

(* finalizeRefund calls refundWalletForOrder, perhaps more than once. *)
RefundOrder(a, o) ==
    /\ order[o].status = "CANCELLED" /\ order[o].wallet > 0
    /\ Start(a, CreditOf("refund-wallet", o, order[o].wallet))
    /\ UNCHANGED <<wallet, manual, rows>>

RefundClaim(a, o) ==
    /\ order[o].status = "COMPLETED" /\ Claimed[o] > 0
    /\ Start(a, CreditOf("claim-wallet", o, Claimed[o]))
    /\ UNCHANGED <<wallet, manual, rows>>

Earned(o) == reward[o].type = "EARN" /\ wallet.points >= reward[o].points

(* creditWallet looks for the key.  A refund that finds it goes on to the  *)
(* points: restoring them again fails, earned ones are taken once more.    *)
LookUpCredit(a) ==
    /\ job[a].at = "lookup"
    /\ LET k == job[a].k  o == job[a].o IN
       IF money[k][o] = 0
       THEN Go(a, [job[a] EXCEPT !.at = "credit", !.seen = Seen])
       ELSE Go(a, CASE k = "offer-cashback" -> AfterCashback(o)
                    [] k = "refund-wallet" /\ order[o].points = 0 /\ Earned(o) -> At("unearn", o)
                    [] OTHER -> NoJob)
    /\ UNCHANGED <<wallet, manual, rows>>

(* Earned points that the same transaction takes back: the order's row of  *)
(* type EARN, if the wallet, with what is restored, still has them.        *)
TakenByRefund(o) ==
    IF reward[o].type = "EARN" /\ wallet.points + order[o].points >= reward[o].points
    THEN reward[o].points ELSE 0

(* Mutant: a refund that forgets the redeemed points. *)
Credit_PointsLost(a) ==
    /\ job[a].at = "credit"
    /\ LET k == job[a].k  o == job[a].o  n == job[a].n IN
       IF money[k][o] # 0
       THEN End(a) /\ UNCHANGED <<wallet, money, restored, taken>>
       ELSE /\ money' = [money EXCEPT ![k][o] = n]
            /\ wallet' = [wallet EXCEPT !.balance = job[a].seen.balance + n]
            /\ Go(a, IF k = "offer-cashback" THEN AfterCashback(o) ELSE NoJob)
            /\ UNCHANGED <<restored, taken>>
    /\ UNCHANGED <<order, reward, adjusted, manual>>

(* The key is unique: the second of two that have not found it fails. *)
Credit(a) ==
    /\ job[a].at = "credit"
    /\ LET k == job[a].k  o == job[a].o  n == job[a].n IN
       IF money[k][o] # 0
       THEN End(a) /\ UNCHANGED <<wallet, money, restored, taken>>
       ELSE /\ money' = [money EXCEPT ![k][o] = n]
            /\ IF k = "refund-wallet"
               THEN /\ wallet' = [wallet EXCEPT !.balance = job[a].seen.balance + n,
                                                !.points = @ + order[o].points - TakenByRefund(o)]
                    /\ restored' = IF order[o].points > 0 THEN restored \cup {o} ELSE restored
                    /\ taken' = [taken EXCEPT ![o] = @ + TakenByRefund(o)]
               ELSE /\ wallet' = [wallet EXCEPT !.balance = job[a].seen.balance + n]
                    /\ UNCHANGED <<restored, taken>>
            /\ Go(a, IF k = "offer-cashback" THEN AfterCashback(o) ELSE NoJob)
    /\ UNCHANGED <<order, reward, adjusted, manual>>

(* The check was made before; the decrement is relative. *)
Unearn(a) ==
    /\ job[a].at = "unearn"
    /\ LET o == job[a].o  p == reward[o].points IN
       /\ wallet' = [wallet EXCEPT !.points = @ - p]
       /\ taken' = [taken EXCEPT ![o] = @ + p]
    /\ End(a)
    /\ UNCHANGED <<order, money, reward, restored, adjusted, manual>>

-----------------------------------------------------------------------------
(* Completed orders; administrators *)

(* The delivery handler completes the order, then creditPointsForOrder     *)
(* finds no row and reads the wallet.                                      *)
CompleteOrder(a, o) ==
    /\ order[o].status = "PLACED"
    /\ order' = [order EXCEPT ![o].status = "COMPLETED"]
    /\ IF reward[o].type = "NONE" /\ Earns[o] > 0
       THEN Start(a, [At("earn", o) EXCEPT !.seen = Seen])
       ELSE UNCHANGED <<job, faults, calm>>
    /\ UNCHANGED <<wallet, money, reward, restored, adjusted, taken, manual>>

(* Mutant: the points are added without a row that says so. *)
EarnPoints_NoRow(a) ==
    /\ job[a].at = "earn"
    /\ LET o == job[a].o  p == job[a].seen.points + Earns[o] IN
       wallet' = [wallet EXCEPT !.points = p]
    /\ End(a)
    /\ UNCHANGED <<order, money, reward, restored, adjusted, taken, manual>>

EarnPoints(a) ==
    /\ job[a].at = "earn"
    /\ LET o == job[a].o  p == job[a].seen.points + Earns[o] IN
       IF reward[o].type = "NONE"
       THEN /\ wallet' = [wallet EXCEPT !.points = p]
            /\ reward' = [reward EXCEPT ![o] = [type |-> "EARN", points |-> Earns[o]]]
       ELSE UNCHANGED <<wallet, reward>>
    /\ End(a)
    /\ UNCHANGED <<order, money, restored, adjusted, taken, manual>>

(* Mutant: the debit's check is left out. *)
ReadForAdjustment_Unchecked(a, n) ==
    /\ manual < MaxAdjustments /\ manual' = manual + 1
    /\ \E step \in {"adjust", "adjust points"}, s \in {n, 0 - n} :
          Start(a, [NoJob EXCEPT !.at = step, !.n = s, !.seen = Seen])
    /\ UNCHANGED <<wallet, rows>>

(* Manual credit and debit; adminAdjustPoints. *)
ReadForAdjustment(a, n) ==
    /\ manual < MaxAdjustments /\ manual' = manual + 1
    /\ \E step \in {"adjust", "adjust points"}, s \in {n, 0 - n} :
          /\ IF step = "adjust" THEN wallet.balance + s >= 0 ELSE wallet.points + s >= 0
          /\ Start(a, [NoJob EXCEPT !.at = step, !.n = s, !.seen = Seen])
    /\ UNCHANGED <<wallet, rows>>

Adjust(a) ==
    /\ LET n == job[a].n  seen == job[a].seen IN
       \/ /\ job[a].at = "adjust"
          /\ wallet' = [wallet EXCEPT !.balance = seen.balance + n]
          /\ adjusted' = [adjusted EXCEPT !.balance = @ + n]
       \/ /\ job[a].at = "adjust points"
          /\ wallet' = [wallet EXCEPT !.points = seen.points + n]
          /\ adjusted' = [adjusted EXCEPT !.points = @ + n]
    /\ End(a)
    /\ UNCHANGED <<order, money, reward, restored, taken, manual>>

Crash(a) ==
    /\ job[a] # NoJob
    /\ faults < MaxFaults /\ faults' = faults + 1
    /\ job' = [job EXCEPT ![a] = NoJob]
    /\ calm' = FALSE
    /\ UNCHANGED <<wallet, manual, rows>>

Step(a) ==
    \/ ReadForOrder(a) \/ PayOrder(a) \/ ReadForBonus(a) \/ AddBonus(a)
    \/ LookUpCredit(a) \/ Credit(a) \/ Unearn(a) \/ EarnPoints(a) \/ Adjust(a)
    \/ Crash(a)

Begin(a) ==
    \/ \E o \in Orders : \/ PlanCheckout(a, o) \/ RefundOrder(a, o)
                         \/ RefundClaim(a, o) \/ CompleteOrder(a, o)
    \/ \E n \in Adjustments : ReadForAdjustment(a, n)

Next ==
    \/ \E a \in Actors : Step(a) \/ Begin(a)
    \/ \E o \in Orders : CancelOrder(o)

Spec == Init /\ [][Next]_vars

-----------------------------------------------------------------------------
(* Properties *)

(* Whatever overlaps or dies, the two tables of rows and the order tell    *)
(* the same story: a placed order has been debited what it says and has    *)
(* redeemed what it says, and one that is given back is given back exactly *)
(* that, money and points in one step and never twice.                     *)
RowsTellTheOrder ==
    \A o \in Orders :
        /\ money["wallet-debit"][o] = order[o].wallet
        /\ order[o].points > 0 <=> reward[o].type = "REDEEM"
        /\ reward[o].type = "REDEEM" => reward[o].points = order[o].points
        /\ money["refund-wallet"][o] \in {0, money["wallet-debit"][o]}
        /\ o \in restored <=> money["refund-wallet"][o] > 0 /\ order[o].points > 0

Total(f) == SumFunctionOnSet(f, Orders)
PointsOf(type) == [o \in Orders |-> IF reward[o].type = type THEN reward[o].points ELSE 0]
PointsIn(type) == Total(PointsOf(type))
PointsBack == SumFunctionOnSet([o \in Orders |-> order[o].points], restored)

MoneyMatchesRows ==
    wallet.balance = Opening.balance + adjusted.balance
        + Total(money["offer-cashback"]) + Total(money["refund-wallet"])
        + Total(money["claim-wallet"]) - Total(money["wallet-debit"])

PointsMatchRows ==
    wallet.points = Opening.points + adjusted.points
        + PointsIn("EARN") - PointsIn("REDEEM") - Total(taken) + PointsBack

(* As long as no handler overlaps another or dies, the wallet is what its  *)
(* rows add up to, in money and in points, between the steps of a handler  *)
(* too.                                                                    *)
WalletMatchesRows == calm => MoneyMatchesRows /\ PointsMatchRows
=============================================================================
