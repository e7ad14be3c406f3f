-------------------------- MODULE BuyerWalletProofs --------------------------
(***************************************************************************)
(* Theorems about BuyerWallet, for any number of orders and handlers and   *)
(* all amounts.  The inductive invariant says of each handler's next step  *)
(* what its earlier ones have found and no other handler can undo: a       *)
(* planned order is not placed and nobody else plans it, an order that a   *)
(* later step names is placed, and the balance that a debit has read       *)
(* covers it.  The last part adds the sums: as long as nothing overlaps or *)
(* dies, what a handler has read is the wallet as it is, so each write     *)
(* moves the wallet by what it enters in the rows.                         *)
(***************************************************************************)
EXTENDS BuyerWallet, SumLemmas

Planning == {"deduct", "pay"}
OfAnOrder == {"lookup", "credit", "bonus", "add bonus", "earn", "unearn"}

JobOK(j, ord) ==
    /\ j.at \in Planning => /\ j.o \in Orders /\ ord[j.o].status = "NONE"
                            /\ j.n \in Nat /\ j.m \in Nat
    /\ j.at = "pay" => j.m > 0 \/ j.seen.balance - j.n \in Nat
    /\ j.at \in OfAnOrder => j.o \in Orders /\ ord[j.o].status # "NONE"
    /\ j.at \in {"lookup", "credit"} => j.n \in Nat /\ j.k # "wallet-debit"
    /\ j.at \in {"lookup", "credit"} /\ j.k = "refund-wallet"
         => j.n > 0 /\ j.n = ord[j.o].wallet
    /\ j.at = "adjust" => j.seen.balance + j.n \in Nat

JobsOK == \A a \in Actors : JobOK(job[a], order)

OnePlanner ==
    \A a, b \in Actors :
        job[a].at \in Planning /\ job[b].o = job[a].o => a = b

NothingUnplaced ==
    \A o \in Orders : order[o].status = "NONE" => order[o].wallet = 0 /\ order[o].points = 0

IInv == TypeOK /\ RowsTellTheOrder /\ JobsOK /\ OnePlanner /\ NothingUnplaced

-----------------------------------------------------------------------------
(* Types *)

LEMMA Types ==
    ASSUME TypeOK
    PROVE  /\ wallet.balance \in Nat /\ wallet.points \in Int
           /\ \A o \in Orders : /\ order[o].status \in OrderStatus
                                /\ order[o].wallet \in Nat /\ order[o].points \in Nat
           /\ \A k \in Keys : \A o \in Orders : money[k][o] \in Nat
           /\ \A o \in Orders : reward[o].type \in RewardType /\ reward[o].points \in Nat
           /\ \A o \in Orders : taken[o] \in Nat
           /\ adjusted.balance \in Int /\ adjusted.points \in Int
           /\ \A a \in Actors : /\ job[a] \in Job
                                /\ job[a].at \in Steps /\ job[a].k \in Keys
                                /\ job[a].n \in Int /\ job[a].m \in Int
                                /\ job[a].seen.balance \in Nat /\ job[a].seen.points \in Int
                                /\ job[a].o \in Orders \cup {None}
<1>1. wallet.balance \in Nat /\ wallet.points \in Int
  BY DEF TypeOK, Wallet
<1>2. \A o \in Orders : /\ order[o].status \in OrderStatus
                        /\ order[o].wallet \in Nat /\ order[o].points \in Nat
  BY DEF TypeOK, Order
<1>3. \A k \in Keys : \A o \in Orders : money[k][o] \in Nat
  BY DEF TypeOK
<1>4. \A o \in Orders : reward[o].type \in RewardType /\ reward[o].points \in Nat
  BY DEF TypeOK, Reward
<1>5. \A o \in Orders : taken[o] \in Nat
  BY DEF TypeOK
<1>6. adjusted.balance \in Int /\ adjusted.points \in Int
  BY DEF TypeOK
<1>7. \A a \in Actors : /\ job[a] \in Job
                        /\ job[a].at \in Steps /\ job[a].k \in Keys
                        /\ job[a].n \in Int /\ job[a].m \in Int
                        /\ job[a].seen.balance \in Nat /\ job[a].seen.points \in Int
                        /\ job[a].o \in Orders \cup {None}
  BY DEF TypeOK, Job
<1> QED  BY <1>1, <1>2, <1>3, <1>4, <1>5, <1>6, <1>7

LEMMA NoJobIsOK == NoJob \in Job /\ (\A ord : JobOK(NoJob, ord)) /\ NoJob.o = None /\ NoJob.at = "idle"
<1>1. [balance |-> 0, points |-> 0] \in [balance : Nat, points : Int]
  OBVIOUS
<1>2. NoJob.at = "idle" /\ NoJob.o = None
  BY DEF NoJob
<1>3. NoJob \in Job
  BY <1>1 DEF NoJob, Job, Steps, Keys
<1>4. \A ord : JobOK(NoJob, ord)
  BY <1>2 DEF JobOK, Planning, OfAnOrder
<1> QED  BY <1>2, <1>3, <1>4

(* NoJob with a step and an order set. *)
LEMMA AtIs ==
    ASSUME NEW o, NEW s
    PROVE  At(s, o) = [at |-> s, k |-> "wallet-debit", o |-> o, n |-> 0, m |-> 0,
                       seen |-> [balance |-> 0, points |-> 0]]
<1> DEFINE j == At(s, o)
<1>1. NoJob = [at |-> "idle", k |-> "wallet-debit", o |-> None, n |-> 0, m |-> 0,
               seen |-> [balance |-> 0, points |-> 0]]
  BY DEF NoJob
<1>2. j = [NoJob EXCEPT !.at = s, !.o = o]
  BY DEF At
<1> HIDE DEF j
<1>3. j = [at |-> s, k |-> "wallet-debit", o |-> o, n |-> 0, m |-> 0,
           seen |-> [balance |-> 0, points |-> 0]]
  BY <1>1, <1>2
<1> QED  BY <1>3 DEF j

LEMMA AtIsOK ==
    ASSUME NEW o \in Orders, NEW s \in OfAnOrder \ {"lookup", "credit"},
           NEW ord, ord[o].status # "NONE"
    PROVE  /\ At(s, o) \in Job /\ JobOK(At(s, o), ord) /\ At(s, o).at = s /\ At(s, o).o = o
<1> DEFINE z == [balance |-> 0, points |-> 0]
           j == At(s, o)
<1>1. z \in [balance : Nat, points : Int]
  OBVIOUS
<1>2. j = [at |-> s, k |-> "wallet-debit", o |-> o, n |-> 0, m |-> 0, seen |-> z]
  BY AtIs
<1> HIDE DEF z, j
<1>3. j.at = s /\ j.o = o
  BY <1>2
<1>4. s \in Steps
  BY DEF Steps, OfAnOrder
<1>5. j \in Job
  BY <1>1, <1>2, <1>4 DEF Job, Keys
<1>6. JobOK(j, ord)
  BY <1>3 DEF JobOK, Planning, OfAnOrder
<1> QED  BY <1>3, <1>5, <1>6 DEF j

LEMMA CreditOfIsOK ==
    ASSUME NEW o \in Orders, NEW k \in Keys \ {"wallet-debit"}, NEW n \in Nat,
           NEW ord, ord[o].status # "NONE", k = "refund-wallet" => n > 0 /\ n = ord[o].wallet
    PROVE  /\ CreditOf(k, o, n) \in Job /\ JobOK(CreditOf(k, o, n), ord)
           /\ CreditOf(k, o, n).at = "lookup" /\ CreditOf(k, o, n).o = o
<1> DEFINE z == [balance |-> 0, points |-> 0]
           i == At("lookup", o)
           j == CreditOf(k, o, n)
<1>1. z \in [balance : Nat, points : Int]
  OBVIOUS
<1>2. i = [at |-> "lookup", k |-> "wallet-debit", o |-> o, n |-> 0, m |-> 0, seen |-> z]
  BY AtIs
<1>3. j = [i EXCEPT !.k = k, !.n = n]
  BY DEF CreditOf
<1> HIDE DEF z, i, j
<1>4. j = [at |-> "lookup", k |-> k, o |-> o, n |-> n, m |-> 0, seen |-> z]
  BY <1>2, <1>3
<1>5. j.at = "lookup" /\ j.o = o /\ j.k = k /\ j.n = n
  BY <1>4
<1>6. j \in Job
  BY <1>1, <1>4 DEF Job, Steps
<1>7. JobOK(j, ord)
  BY <1>5 DEF JobOK, Planning, OfAnOrder
<1> QED  BY <1>5, <1>6, <1>7 DEF j

-----------------------------------------------------------------------------
(* What a step does to the handlers *)

Moves(a, j) == job' = [job EXCEPT ![a] = j] /\ faults' \in 0..MaxFaults /\ calm' \in BOOLEAN

(* No other handler plans the order of j, and none names it if j plans it. *)
Alone(a, j) ==
    \A b \in Actors \ {a} :
        /\ job[b].at \in Planning => job[b].o # j.o
        /\ j.at \in Planning => job[b].o # j.o

LEMMA GoMoves ==
    ASSUME TypeOK, NEW a \in Actors, NEW j, Go(a, j) \/ Start(a, j)
    PROVE  Moves(a, j)
<1>1. faults \in 0..MaxFaults /\ MaxFaults \in Nat
  BY BoundAssumption DEF TypeOK
<1>2. job' = [job EXCEPT ![a] = j]
  BY DEF Go, Start
<1>3. \/ UNCHANGED <<faults, calm>>
      \/ faults < MaxFaults /\ faults' = faults + 1 /\ calm' = FALSE
  <2>1. CASE Go(a, j)
    BY <2>1 DEF Go
  <2>2. CASE Start(a, j)
    BY <2>2 DEF Start
  <2> QED  BY <2>1, <2>2
<1>4. faults' \in 0..MaxFaults
  BY <1>1, <1>3
<1>5. calm' \in BOOLEAN
  BY <1>3 DEF TypeOK
<1> QED  BY <1>2, <1>4, <1>5 DEF Moves

(* A step of an order that is placed, or of no order, is alone. *)
LEMMA LaterIsAlone ==
    ASSUME IInv, NEW a \in Actors, NEW j, j.at \notin Planning,
           j.o = None \/ order[j.o].status # "NONE"
    PROVE  Alone(a, j)
BY NoneAssumption DEF IInv, JobsOK, JobOK, Alone

LEMMA JobsGoOn ==
    ASSUME IInv, NEW a \in Actors, NEW j \in Job, Moves(a, j), Alone(a, j), JobOK(j, order'),
           \A b \in Actors \ {a} : JobOK(job[b], order')
    PROVE  job' \in [Actors -> Job] /\ JobsOK' /\ OnePlanner'
<1>1. job' = [job EXCEPT ![a] = j] /\ job \in [Actors -> Job]
  BY DEF Moves, IInv, TypeOK
<1>2. \A b \in Actors : job'[b] = IF b = a THEN j ELSE job[b]
  BY <1>1
<1>3. job' \in [Actors -> Job]
  BY <1>1
<1>4. JobsOK'
  <2> SUFFICES ASSUME NEW b \in Actors PROVE JobOK(job'[b], order')
    BY DEF JobsOK
  <2>1. CASE b = a
    BY <1>2, <2>1
  <2>2. CASE b # a
    BY <1>2, <2>2
  <2> QED  BY <2>1, <2>2
<1>5. OnePlanner'
  <2> SUFFICES ASSUME NEW b \in Actors, NEW c \in Actors,
                      job'[b].at \in Planning, job'[c].o = job'[b].o
               PROVE  b = c
    BY DEF OnePlanner
  <2> QED  BY <1>2 DEF Alone, IInv, OnePlanner
<1> QED  BY <1>3, <1>4, <1>5

(* The steps that are left of the other handlers survive a change of the   *)
(* orders that places none and changes no amount.                          *)
LEMMA JobsSurvive ==
    ASSUME IInv,
           \A o \in Orders : /\ order'[o].status = "NONE" <=> order[o].status = "NONE"
                             /\ order'[o].wallet = order[o].wallet
    PROVE  \A b \in Actors : JobOK(job[b], order')
<1> SUFFICES ASSUME NEW b \in Actors PROVE JobOK(job[b], order')
  OBVIOUS
<1>1. JobOK(job[b], order)
  BY DEF IInv, JobsOK
<1>2. CASE job[b].o \in Orders
  <2>1. order'[job[b].o].status = "NONE" <=> order[job[b].o].status = "NONE"
    BY <1>2
  <2>2. order'[job[b].o].wallet = order[job[b].o].wallet
    BY <1>2
  <2> QED  BY <1>1, <2>1, <2>2 DEF JobOK
<1>3. CASE job[b].o \notin Orders
  BY <1>1, <1>3 DEF JobOK, OfAnOrder, Planning
<1> QED  BY <1>2, <1>3

LEMMA OrdersStay ==
    ASSUME IInv, UNCHANGED order
    PROVE  \A b \in Actors : JobOK(job[b], order')
BY DEF IInv, JobsOK

(* A handler that only reads. *)
LEMMA Reads ==
    ASSUME IInv, NEW a \in Actors, NEW j \in Job, Moves(a, j), Alone(a, j), JobOK(j, order),
           UNCHANGED <<wallet, rows>>, manual' \in 0..MaxAdjustments
    PROVE  IInv'
<1>1. UNCHANGED <<wallet, order, money, reward, restored, adjusted, taken>>
  BY DEF rows
<1>2. job' \in [Actors -> Job] /\ JobsOK' /\ OnePlanner'
  BY <1>1, OrdersStay, JobsGoOn
<1>3. TypeOK'
  BY <1>1, <1>2 DEF IInv, TypeOK, Moves
<1>4. RowsTellTheOrder' /\ NothingUnplaced'
  BY <1>1 DEF IInv, RowsTellTheOrder, NothingUnplaced
<1> QED  BY <1>2, <1>3, <1>4 DEF IInv

LEMMA EndReads ==
    ASSUME IInv, NEW a \in Actors, End(a), UNCHANGED <<wallet, manual, rows>>
    PROVE  IInv'
<1>1. Moves(a, NoJob) /\ Alone(a, NoJob)
  BY NoJobIsOK, GoMoves, LaterIsAlone DEF End, IInv, Planning
<1>2. manual' \in 0..MaxAdjustments
  BY DEF IInv, TypeOK
<1> QED  BY <1>1, <1>2, NoJobIsOK, Reads

(* A handler goes on with what it has just read. *)
ReadOf(a, s) == [job[a] EXCEPT !.at = s, !.seen = Seen]

LEMMA ReadJob ==
    ASSUME IInv, NEW a \in Actors, NEW s \in Steps
    PROVE  /\ ReadOf(a, s) \in Job /\ ReadOf(a, s).at = s
           /\ ReadOf(a, s).k = job[a].k /\ ReadOf(a, s).o = job[a].o
           /\ ReadOf(a, s).n = job[a].n /\ ReadOf(a, s).m = job[a].m
           /\ ReadOf(a, s).seen.balance = wallet.balance
<1> DEFINE j == ReadOf(a, s)
<1>1. Seen \in [balance : Nat, points : Int]
  BY Types DEF IInv, Seen
<1>2. job[a] \in Job
  BY Types DEF IInv
<1>3. j = [job[a] EXCEPT !.at = s, !.seen = Seen]
  BY DEF ReadOf
<1> HIDE DEF j
<1>4. j \in Job
  BY <1>1, <1>2, <1>3 DEF Job
<1>5. /\ j.at = s /\ j.k = job[a].k /\ j.o = job[a].o
      /\ j.n = job[a].n /\ j.m = job[a].m /\ j.seen = Seen
  BY <1>2, <1>3 DEF Job
<1>6. j.seen.balance = wallet.balance
  BY <1>5 DEF Seen
<1> QED  BY <1>4, <1>5, <1>6 DEF j

-----------------------------------------------------------------------------
(* Steps that only read *)

LEMMA PlanCheckoutPreserves ==
    ASSUME IInv, NEW a \in Actors, NEW o \in Orders, PlanCheckout(a, o)
    PROVE  IInv'
<1> DEFINE n == IF Wish[o] <= wallet.balance THEN Wish[o] ELSE wallet.balance
           z == [balance |-> 0, points |-> 0]
           i == At("deduct", o)
           j == [i EXCEPT !.n = n, !.m = Redeem[o]]
<1>1. n \in Nat /\ Redeem[o] \in Nat
  BY Types, AmountAssumption DEF IInv, Amounts
<1>2. z \in [balance : Nat, points : Int]
  OBVIOUS
<1>3. i = [at |-> "deduct", k |-> "wallet-debit", o |-> o, n |-> 0, m |-> 0, seen |-> z]
  BY AtIs
<1>4. Start(a, j)
  BY DEF PlanCheckout
<1>13. j = [i EXCEPT !.n = n, !.m = Redeem[o]]
  OBVIOUS
<1> HIDE DEF n, z, i, j
<1>5. j = [at |-> "deduct", k |-> "wallet-debit", o |-> o, n |-> n, m |-> Redeem[o], seen |-> z]
  BY <1>3, <1>13
<1>6. j.at = "deduct" /\ j.o = o /\ j.n = n /\ j.m = Redeem[o]
  BY <1>5
<1>7. j \in Job
  BY <1>1, <1>2, <1>5 DEF Job, Steps, Keys
<1>8. order[o].status = "NONE" /\ \A b \in Actors : job[b].o # o
  BY DEF PlanCheckout
<1>9. JobOK(j, order)
  BY <1>1, <1>6, <1>8 DEF JobOK, Planning, OfAnOrder
<1>10. Alone(a, j)
  BY <1>6, <1>8 DEF Alone
<1>11. UNCHANGED <<wallet, rows>> /\ manual' \in 0..MaxAdjustments
  BY DEF PlanCheckout, IInv, TypeOK
<1>12. Moves(a, j)
  BY <1>4, GoMoves DEF IInv
<1> QED  BY <1>7, <1>9, <1>10, <1>11, <1>12, Reads

LEMMA ReadForOrderPreserves ==
    ASSUME IInv, NEW a \in Actors, ReadForOrder(a)
    PROVE  IInv'
<1> DEFINE j == ReadOf(a, "pay")
<1>1. UNCHANGED <<wallet, manual, rows>> /\ job[a].at = "deduct"
  BY DEF ReadForOrder
<1>2. CASE End(a)
  BY <1>1, <1>2, EndReads
<1>3. CASE /\ ~((job[a].m > 0 /\ wallet.points < job[a].m)
                  \/ (job[a].m = 0 /\ wallet.balance < job[a].n))
           /\ Go(a, j)
  <2>1. /\ job[a].o \in Orders /\ order[job[a].o].status = "NONE"
        /\ job[a].n \in Nat /\ job[a].m \in Nat
    BY <1>1 DEF IInv, JobsOK, JobOK, Planning
  <2>2. "pay" \in Steps
    BY DEF Steps
  <2> HIDE DEF j
  <2>3. /\ j \in Job /\ j.at = "pay" /\ j.o = job[a].o
        /\ j.n = job[a].n /\ j.m = job[a].m /\ j.seen.balance = wallet.balance
    BY <2>2, ReadJob DEF j
  <2>4. j.m > 0 \/ j.seen.balance - j.n \in Nat
    BY <1>3, <2>1, <2>3, Types DEF IInv
  <2>5. JobOK(j, order)
    BY <2>1, <2>3, <2>4 DEF JobOK, Planning, OfAnOrder
  <2>6. Alone(a, j)
    BY <1>1, <2>3 DEF Alone, IInv, OnePlanner, Planning
  <2>7. Moves(a, j) /\ manual' \in 0..MaxAdjustments
    BY <1>1, <1>3, GoMoves DEF IInv, TypeOK
  <2> QED  BY <1>1, <2>3, <2>5, <2>6, <2>7, Reads
<1> QED  BY <1>2, <1>3 DEF ReadForOrder, ReadOf

LEMMA ReadForBonusPreserves ==
    ASSUME IInv, NEW a \in Actors, ReadForBonus(a)
    PROVE  IInv'
<1> DEFINE j == ReadOf(a, "add bonus")
<1>1. job[a].at = "bonus" /\ Go(a, j) /\ UNCHANGED <<wallet, manual, rows>>
  BY DEF ReadForBonus, ReadOf
<1>2. "add bonus" \in Steps
  BY DEF Steps
<1> HIDE DEF j
<1>3. j \in Job /\ j.at = "add bonus" /\ j.o = job[a].o
  BY <1>2, ReadJob DEF j
<1>4. j.o \in Orders /\ order[j.o].status # "NONE"
  BY <1>1, <1>3 DEF IInv, JobsOK, JobOK, OfAnOrder
<1>5. JobOK(j, order) /\ Alone(a, j)
  BY <1>3, <1>4, LaterIsAlone DEF JobOK, Planning
<1>6. Moves(a, j) /\ manual' \in 0..MaxAdjustments
  BY <1>1, GoMoves DEF IInv, TypeOK
<1> QED  BY <1>1, <1>3, <1>5, <1>6, Reads

(* A handler starts, or goes on, with a step of a placed order. *)
LEMMA GoesOnWith ==
    ASSUME IInv, NEW a \in Actors, NEW j \in Job, Go(a, j) \/ Start(a, j), JobOK(j, order),
           j.at \notin Planning, j.o = None \/ order[j.o].status # "NONE",
           UNCHANGED <<wallet, rows>>, manual' \in 0..MaxAdjustments
    PROVE  IInv'
<1>1. Moves(a, j)
  BY GoMoves DEF IInv
<1>2. Alone(a, j)
  BY LaterIsAlone
<1> QED  BY <1>1, <1>2, Reads

LEMMA RefundPreserves ==
    ASSUME IInv, NEW a \in Actors, NEW o \in Orders, RefundOrder(a, o) \/ RefundClaim(a, o)
    PROVE  IInv'
<1>1. manual' \in 0..MaxAdjustments /\ UNCHANGED <<wallet, rows>>
  BY DEF RefundOrder, RefundClaim, IInv, TypeOK
<1>2. CASE RefundOrder(a, o)
  <2> DEFINE j == CreditOf("refund-wallet", o, order[o].wallet)
  <2>1. Start(a, j) /\ order[o].status # "NONE" /\ order[o].wallet > 0 /\ order[o].wallet \in Nat
    BY <1>2, Types DEF RefundOrder, IInv
  <2>2. j \in Job /\ JobOK(j, order) /\ j.at = "lookup" /\ j.o = o
    <3>1. {"refund-wallet", "claim-wallet"} \subseteq Keys \ {"wallet-debit"}
      BY DEF Keys
    <3> QED  BY <2>1, <3>1, CreditOfIsOK
  <2> HIDE DEF j
  <2> QED  BY <1>1, <2>1, <2>2, GoesOnWith DEF Planning
<1>3. CASE RefundClaim(a, o)
  <2> DEFINE j == CreditOf("claim-wallet", o, Claimed[o])
  <2>1. Start(a, j) /\ order[o].status # "NONE" /\ Claimed[o] \in Nat
    BY <1>3, AmountAssumption DEF RefundClaim, Amounts
  <2>2. j \in Job /\ JobOK(j, order) /\ j.at = "lookup" /\ j.o = o
    <3>1. {"refund-wallet", "claim-wallet"} \subseteq Keys \ {"wallet-debit"}
      BY DEF Keys
    <3> QED  BY <2>1, <3>1, CreditOfIsOK
  <2> HIDE DEF j
  <2> QED  BY <1>1, <2>1, <2>2, GoesOnWith DEF Planning
<1> QED  BY <1>2, <1>3

LEMMA AfterCashbackIsOK ==
    ASSUME NEW o \in Orders, NEW ord, ord[o].status # "NONE"
    PROVE  /\ AfterCashback(o) \in Job /\ JobOK(AfterCashback(o), ord)
           /\ AfterCashback(o).at \notin Planning /\ AfterCashback(o).o \in {o, None}
<1>1. CASE AfterCashback(o) = NoJob
  BY <1>1, NoJobIsOK DEF Planning
<1>2. CASE AfterCashback(o) = At("bonus", o)
  <2>1. "bonus" \in OfAnOrder \ {"lookup", "credit"}
    BY DEF OfAnOrder
  <2>2. /\ At("bonus", o) \in Job /\ JobOK(At("bonus", o), ord)
        /\ At("bonus", o).at = "bonus" /\ At("bonus", o).o = o
    BY <2>1, AtIsOK
  <2> QED  BY <1>2, <2>2 DEF Planning
<1> QED  BY <1>1, <1>2 DEF AfterCashback

LEMMA AfterOrderIsOK ==
    ASSUME NEW o \in Orders, NEW ord, ord[o].status # "NONE"
    PROVE  /\ AfterOrder(o) \in Job /\ JobOK(AfterOrder(o), ord)
           /\ AfterOrder(o).at \notin Planning /\ AfterOrder(o).o \in {o, None}
<1>1. CASE AfterOrder(o) = AfterCashback(o)
  BY <1>1, AfterCashbackIsOK
<1>2. CASE AfterOrder(o) = CreditOf("offer-cashback", o, Cashback[o])
  BY <1>2, CreditOfIsOK, AmountAssumption DEF Amounts, Keys, Planning
<1> QED  BY <1>1, <1>2 DEF AfterOrder

LEMMA LookUpCreditPreserves ==
    ASSUME IInv, NEW a \in Actors, LookUpCredit(a)
    PROVE  IInv'
<1> DEFINE o == job[a].o  k == job[a].k
<1>1. /\ job[a].at = "lookup" /\ UNCHANGED <<wallet, manual, rows>>
      /\ manual' \in 0..MaxAdjustments
  BY DEF LookUpCredit, IInv, TypeOK
<1>2. /\ o \in Orders /\ order[o].status # "NONE"
      /\ job[a].n \in Nat /\ k # "wallet-debit"
      /\ k = "refund-wallet" => job[a].n > 0 /\ job[a].n = order[o].wallet
  BY <1>1 DEF IInv, JobsOK, JobOK, OfAnOrder
<1>3. CASE money[k][o] = 0
  <2> DEFINE j == ReadOf(a, "credit")
  <2>1. Go(a, j) /\ "credit" \in Steps
    BY <1>3 DEF LookUpCredit, ReadOf, Steps
  <2> HIDE DEF j
  <2>2. j \in Job /\ j.at = "credit" /\ j.o = o /\ j.k = k /\ j.n = job[a].n
    BY <2>1, ReadJob DEF j
  <2>3. JobOK(j, order) /\ j.at \notin Planning
    BY <1>2, <2>2 DEF JobOK, Planning
  <2> QED  BY <1>1, <1>2, <2>1, <2>2, <2>3, GoesOnWith
<1>4. CASE money[k][o] # 0
  <2>1. PICK j \in {AfterCashback(o), At("unearn", o), NoJob} : Go(a, j)
    BY <1>4 DEF LookUpCredit
  <2>2. CASE j = AfterCashback(o)
    BY <1>1, <1>2, <2>1, <2>2, AfterCashbackIsOK, GoesOnWith
  <2>3. CASE j = At("unearn", o)
    <3>1. "unearn" \in OfAnOrder \ {"lookup", "credit"}
      BY DEF OfAnOrder
    <3>2. j \in Job /\ JobOK(j, order) /\ j.at = "unearn" /\ j.o = o
      BY <1>2, <2>3, <3>1, AtIsOK
    <3> QED  BY <1>1, <1>2, <2>1, <3>2, GoesOnWith DEF Planning
  <2>4. CASE j = NoJob
    BY <1>1, <2>1, <2>4, NoJobIsOK, GoesOnWith DEF Planning
  <2> QED  BY <2>1, <2>2, <2>3, <2>4
<1> QED  BY <1>3, <1>4

LEMMA ReadForAdjustmentPreserves ==
    ASSUME IInv, NEW a \in Actors, NEW n \in Nat, ReadForAdjustment(a, n)
    PROVE  IInv'
<1>1. PICK s \in Steps, i \in Int :
         /\ s \in {"adjust", "adjust points"}
         /\ IF s = "adjust" THEN wallet.balance + i >= 0 ELSE wallet.points + i >= 0
         /\ Start(a, [NoJob EXCEPT !.at = s, !.n = i, !.seen = Seen])
  <2>1. n \in Int /\ 0 - n \in Int /\ {"adjust", "adjust points"} \subseteq Steps
    BY DEF Steps
  <2> QED  BY <2>1 DEF ReadForAdjustment
<1>3. manual' \in 0..MaxAdjustments /\ UNCHANGED <<wallet, rows>>
  <2>1. manual \in 0..MaxAdjustments
    BY DEF IInv, TypeOK
  <2>2. manual < MaxAdjustments /\ manual' = manual + 1 /\ UNCHANGED <<wallet, rows>>
    BY DEF ReadForAdjustment
  <2>3. manual' \in 0..MaxAdjustments
    BY <2>1, <2>2, BoundAssumption
  <2> QED  BY <2>2, <2>3
<1> DEFINE j == [NoJob EXCEPT !.at = s, !.n = i, !.seen = Seen]
<1>4. Start(a, j)
  BY <1>1
<1>5. Seen \in [balance : Nat, points : Int] /\ Seen.balance = wallet.balance
  BY Types DEF IInv, Seen
<1>6. j = [NoJob EXCEPT !.at = s, !.n = i, !.seen = Seen]
  OBVIOUS
<1> HIDE DEF j
<1>7. NoJob = [at |-> "idle", k |-> "wallet-debit", o |-> None, n |-> 0, m |-> 0,
               seen |-> [balance |-> 0, points |-> 0]]
  BY DEF NoJob
<1>8. j = [at |-> s, k |-> "wallet-debit", o |-> None, n |-> i, m |-> 0, seen |-> Seen]
  BY <1>6, <1>7
<1>9. j.at = s /\ j.o = None /\ j.n = i /\ j.seen = Seen
  BY <1>8
<1>10. j \in Job
  BY <1>5, <1>8 DEF Job, Keys
<1>11. s = "adjust" => Seen.balance + i \in Nat
  BY <1>1, <1>5, Types DEF IInv
<1>12. JobOK(j, order) /\ j.at \notin Planning
  BY <1>1, <1>9, <1>11 DEF JobOK, Planning, OfAnOrder
<1> QED  BY <1>3, <1>4, <1>9, <1>10, <1>12, GoesOnWith

-----------------------------------------------------------------------------
(* Steps that write *)

(* The wallet after a write: its type, given the values. *)
LEMMA WalletIs ==
    ASSUME NEW w \in Wallet, NEW b \in Nat, NEW p \in Int
    PROVE  /\ [w EXCEPT !.balance = b] \in Wallet /\ [w EXCEPT !.points = p] \in Wallet
           /\ [w EXCEPT !.balance = b, !.points = p] \in Wallet
           /\ [w EXCEPT !.points = p, !.balance = b] \in Wallet
BY DEF Wallet

DataOK ==
    /\ wallet \in Wallet /\ order \in [Orders -> Order] /\ money \in [Keys -> [Orders -> Nat]]
    /\ reward \in [Orders -> Reward] /\ restored \subseteq Orders
    /\ adjusted \in [balance : Int, points : Int] /\ taken \in [Orders -> Nat]
    /\ manual \in 0..MaxAdjustments

LEMMA Commits ==
    ASSUME IInv, NEW a \in Actors, NEW j \in Job, Moves(a, j), Alone(a, j), JobOK(j, order'),
           \A b \in Actors \ {a} : JobOK(job[b], order'),
           DataOK', RowsTellTheOrder', NothingUnplaced'
    PROVE  IInv'
<1>1. job' \in [Actors -> Job] /\ JobsOK' /\ OnePlanner'
  BY JobsGoOn
<1>2. TypeOK'
  BY <1>1 DEF DataOK, TypeOK, Moves
<1> QED  BY <1>1, <1>2 DEF IInv

LEMMA DataStays == ASSUME IInv PROVE DataOK
BY DEF IInv, TypeOK, DataOK

(* A handler that writes as its last step and changes no order. *)
LEMMA EndCommits ==
    ASSUME IInv, NEW a \in Actors, End(a), UNCHANGED order,
           DataOK', RowsTellTheOrder'
    PROVE  IInv'
<1>1. Moves(a, NoJob) /\ Alone(a, NoJob)
  BY NoJobIsOK, GoMoves, LaterIsAlone DEF End, IInv, Planning
<1>2. NothingUnplaced'
  BY DEF IInv, NothingUnplaced
<1>3. \A b \in Actors \ {a} : JobOK(job[b], order')
  BY OrdersStay
<1> QED  BY <1>1, <1>2, <1>3, NoJobIsOK, Commits

(* The only row of an order's points may be added once the order has none. *)
LEMMA AddBonusPreserves ==
    ASSUME IInv, NEW a \in Actors, AddBonus(a) \/ EarnPoints(a)
    PROVE  IInv'
<1> DEFINE o == job[a].o
<1>1. job[a].at \in {"add bonus", "earn"} /\ o \in Orders
  BY DEF AddBonus, EarnPoints, IInv, JobsOK, JobOK, OfAnOrder
<1>2. PICK p \in Nat :
         \/ /\ reward[o].type = "NONE"
            /\ wallet' = [wallet EXCEPT !.points = job[a].seen.points + p]
            /\ reward' = [reward EXCEPT ![o] = [type |-> "EARN", points |-> p]]
         \/ UNCHANGED <<wallet, reward>>
  <2>1. Bonus[o] \in Nat /\ Earns[o] \in Nat
    BY <1>1, AmountAssumption DEF Amounts
  <2> QED  BY <2>1 DEF AddBonus, EarnPoints
<1>3. End(a) /\ UNCHANGED <<order, money, restored, adjusted, taken, manual>>
  BY DEF AddBonus, EarnPoints
<1>4. DataOK /\ RowsTellTheOrder
  BY DataStays DEF IInv
<1>5. CASE UNCHANGED <<wallet, reward>>
  <2>1. DataOK' /\ RowsTellTheOrder'
    BY <1>3, <1>4, <1>5 DEF DataOK, RowsTellTheOrder
  <2> QED  BY <1>3, <2>1, EndCommits
<1>6. CASE /\ reward[o].type = "NONE"
           /\ wallet' = [wallet EXCEPT !.points = job[a].seen.points + p]
           /\ reward' = [reward EXCEPT ![o] = [type |-> "EARN", points |-> p]]
  <2>1. job[a].seen.points + p \in Int
    BY Types DEF IInv
  <2>2. wallet' \in Wallet
    BY <1>4, <1>6, <2>1, WalletIs DEF DataOK
  <2>3. [type |-> "EARN", points |-> p] \in Reward
    BY DEF Reward, RewardType
  <2>4. reward' \in [Orders -> Reward]
    BY <1>4, <1>6, <2>3 DEF DataOK
  <2>5. DataOK'
    BY <1>3, <1>4, <2>2, <2>4 DEF DataOK
  <2>6. \A q \in Orders : reward'[q] = IF q = o THEN [type |-> "EARN", points |-> p] ELSE reward[q]
    BY <1>4, <1>6 DEF DataOK
  <2>7. \A q \in Orders : /\ reward'[q].type = "REDEEM" <=> reward[q].type = "REDEEM"
                          /\ reward[q].type = "REDEEM" => reward'[q].points = reward[q].points
    BY <1>6, <2>6
  <2>8. RowsTellTheOrder'
    BY <1>3, <1>4, <2>7 DEF RowsTellTheOrder
  <2> QED  BY <1>3, <2>5, <2>8, EndCommits
<1> QED  BY <1>2, <1>5, <1>6

LEMMA UnearnPreserves ==
    ASSUME IInv, NEW a \in Actors, Unearn(a)
    PROVE  IInv'
<1> DEFINE o == job[a].o  p == reward[o].points
<1>1. /\ job[a].at = "unearn" /\ End(a)
      /\ wallet' = [wallet EXCEPT !.points = wallet.points - p]
      /\ taken' = [taken EXCEPT ![o] = taken[o] + p]
      /\ UNCHANGED <<order, money, reward, restored, adjusted, manual>>
  BY DEF Unearn
<1>2. o \in Orders
  BY <1>1 DEF IInv, JobsOK, JobOK, OfAnOrder
<1>3. wallet.points - p \in Int /\ taken[o] + p \in Nat
  BY <1>2, Types DEF IInv
<1>4. DataOK /\ RowsTellTheOrder
  BY DataStays DEF IInv
<1>5. wallet' \in Wallet
  BY <1>1, <1>3, <1>4, WalletIs DEF DataOK
<1>6. taken' \in [Orders -> Nat]
  BY <1>1, <1>3, <1>4 DEF DataOK
<1>7. DataOK' /\ RowsTellTheOrder'
  BY <1>1, <1>4, <1>5, <1>6 DEF DataOK, RowsTellTheOrder
<1> QED  BY <1>1, <1>7, EndCommits

LEMMA AdjustPreserves ==
    ASSUME IInv, NEW a \in Actors, Adjust(a)
    PROVE  IInv'
<1> DEFINE n == job[a].n  seen == job[a].seen
<1>1. End(a) /\ UNCHANGED <<order, money, reward, restored, taken, manual>>
  BY DEF Adjust
<1>2. n \in Int /\ seen.points + n \in Int /\ adjusted.balance + n \in Int /\ adjusted.points + n \in Int
  BY Types DEF IInv
<1>3. DataOK /\ RowsTellTheOrder
  BY DataStays DEF IInv
<1>4. wallet' \in Wallet /\ adjusted' \in [balance : Int, points : Int]
  <2>1. CASE /\ job[a].at = "adjust"
             /\ wallet' = [wallet EXCEPT !.balance = seen.balance + n]
             /\ adjusted' = [adjusted EXCEPT !.balance = adjusted.balance + n]
    <3>1. seen.balance + n \in Nat
      BY <2>1 DEF IInv, JobsOK, JobOK
    <3>2. wallet' \in Wallet
      BY <1>3, <2>1, <3>1, WalletIs DEF DataOK
    <3>3. adjusted' \in [balance : Int, points : Int]
      BY <1>2, <1>3, <2>1 DEF DataOK
    <3> QED  BY <3>2, <3>3
  <2>2. CASE /\ wallet' = [wallet EXCEPT !.points = seen.points + n]
             /\ adjusted' = [adjusted EXCEPT !.points = adjusted.points + n]
    <3>1. wallet' \in Wallet
      BY <1>2, <1>3, <2>2, WalletIs DEF DataOK
    <3>2. adjusted' \in [balance : Int, points : Int]
      BY <1>2, <1>3, <2>2 DEF DataOK
    <3> QED  BY <3>1, <3>2
  <2> QED  BY <2>1, <2>2 DEF Adjust
<1>5. DataOK' /\ RowsTellTheOrder'
  BY <1>1, <1>3, <1>4 DEF DataOK, RowsTellTheOrder
<1> QED  BY <1>1, <1>5, EndCommits

LEMMA CrashPreserves ==
    ASSUME IInv, NEW a \in Actors, Crash(a)
    PROVE  IInv'
<1>1. faults' \in 0..MaxFaults /\ calm' = FALSE
  BY BoundAssumption DEF Crash, IInv, TypeOK
<1>2. Moves(a, NoJob)
  BY <1>1 DEF Crash, Moves
<1>3. Alone(a, NoJob)
  BY NoJobIsOK, LaterIsAlone DEF Planning
<1>4. UNCHANGED <<wallet, rows>> /\ manual' \in 0..MaxAdjustments
  BY DEF Crash, IInv, TypeOK
<1> QED  BY <1>2, <1>3, <1>4, NoJobIsOK, Reads

(* The status of an order changes, and nothing else of it. *)
LEMMA StatusChanges ==
    ASSUME IInv, NEW o \in Orders, order[o].status # "NONE",
           NEW s \in OrderStatus, s # "NONE",
           order' = [order EXCEPT ![o].status = s],
           UNCHANGED <<wallet, money, reward, restored, adjusted, taken, manual>>
    PROVE  /\ DataOK' /\ RowsTellTheOrder' /\ NothingUnplaced'
           /\ order'[o].status # "NONE"
           /\ \A b \in Actors : JobOK(job[b], order')
<1>1. DataOK /\ RowsTellTheOrder /\ NothingUnplaced
  BY DataStays DEF IInv
<1>2. order' \in [Orders -> Order]
  BY <1>1 DEF DataOK, Order
<1>3. \A q \in Orders : /\ order'[q].status = IF q = o THEN s ELSE order[q].status
                        /\ order'[q].wallet = order[q].wallet
                        /\ order'[q].points = order[q].points
  BY <1>1 DEF DataOK, Order
<1>4. DataOK'
  BY <1>1, <1>2 DEF DataOK
<1>5. RowsTellTheOrder'
  BY <1>1, <1>3 DEF RowsTellTheOrder
<1>6. NothingUnplaced'
  BY <1>1, <1>3 DEF NothingUnplaced
<1>7. \A q \in Orders : order'[q].status = "NONE" <=> order[q].status = "NONE"
  BY <1>3
<1>8. \A b \in Actors : JobOK(job[b], order')
  BY <1>3, <1>7, JobsSurvive
<1> QED  BY <1>3, <1>4, <1>5, <1>6, <1>8

LEMMA CancelOrderPreserves ==
    ASSUME IInv, NEW o \in Orders, CancelOrder(o)
    PROVE  IInv'
<1>1. /\ order[o].status = "PLACED" /\ order' = [order EXCEPT ![o].status = "CANCELLED"]
      /\ UNCHANGED <<wallet, money, reward, restored, adjusted, taken, job, manual, faults, calm>>
  BY DEF CancelOrder
<1>2. /\ DataOK' /\ RowsTellTheOrder' /\ NothingUnplaced'
      /\ \A b \in Actors : JobOK(job[b], order')
  BY <1>1, StatusChanges DEF OrderStatus
<1>3. JobsOK' /\ OnePlanner'
  BY <1>1, <1>2 DEF IInv, JobsOK, OnePlanner
<1>4. TypeOK'
  BY <1>1, <1>2 DEF IInv, TypeOK, DataOK
<1> QED  BY <1>2, <1>3, <1>4 DEF IInv

LEMMA CompleteOrderPreserves ==
    ASSUME IInv, NEW a \in Actors, NEW o \in Orders, CompleteOrder(a, o)
    PROVE  IInv'
<1>1. /\ order[o].status = "PLACED" /\ order' = [order EXCEPT ![o].status = "COMPLETED"]
      /\ UNCHANGED <<wallet, money, reward, restored, adjusted, taken, manual>>
  BY DEF CompleteOrder
<1>2. /\ DataOK' /\ RowsTellTheOrder' /\ NothingUnplaced' /\ order'[o].status # "NONE"
      /\ \A b \in Actors : JobOK(job[b], order')
  BY <1>1, StatusChanges DEF OrderStatus
<1>3. CASE UNCHANGED <<job, faults, calm>>
  <2>1. JobsOK' /\ OnePlanner'
    BY <1>2, <1>3 DEF IInv, JobsOK, OnePlanner
  <2>2. TypeOK'
    BY <1>2, <1>3 DEF IInv, TypeOK, DataOK
  <2> QED  BY <1>2, <2>1, <2>2 DEF IInv
<1>4. CASE Start(a, [At("earn", o) EXCEPT !.seen = Seen])
  <2> DEFINE i == At("earn", o)
             j == [i EXCEPT !.seen = Seen]
  <2>1. "earn" \in OfAnOrder \ {"lookup", "credit"}
    BY DEF OfAnOrder
  <2>2. i \in Job /\ i.at = "earn" /\ i.o = o
    BY <1>1, <2>1, AtIsOK
  <2>3. Seen \in [balance : Nat, points : Int]
    BY Types DEF IInv, Seen
  <2>4. j = [i EXCEPT !.seen = Seen] /\ Start(a, j)
    BY <1>4
  <2> HIDE DEF i, j
  <2>5. j \in Job
    BY <2>2, <2>3, <2>4 DEF Job
  <2>6. j.at = "earn" /\ j.o = o
    BY <2>2, <2>4 DEF Job
  <2>7. JobOK(j, order')
    BY <1>2, <2>6 DEF JobOK, Planning
  <2>8. Alone(a, j) /\ Moves(a, j)
    BY <1>1, <2>4, <2>6, LaterIsAlone, GoMoves DEF IInv, Planning
  <2> QED  BY <1>2, <2>5, <2>7, <2>8, Commits
<1> QED  BY <1>3, <1>4 DEF CompleteOrder

LEMMA PayOrderPreserves ==
    ASSUME IInv, NEW a \in Actors, PayOrder(a)
    PROVE  IInv'
<1> DEFINE o == job[a].o  n == job[a].n  m == job[a].m
           placed == [status |-> "PLACED", wallet |-> n, points |-> m]
           redeemed == [type |-> "REDEEM", points |-> m]
<1>1. job[a].at = "pay" /\ UNCHANGED <<restored, adjusted, taken, manual>>
  BY DEF PayOrder
<1>2. /\ o \in Orders /\ order[o].status = "NONE" /\ n \in Nat /\ m \in Nat
      /\ m > 0 \/ job[a].seen.balance - n \in Nat
  BY <1>1 DEF IInv, JobsOK, JobOK, Planning
<1>3. DataOK /\ RowsTellTheOrder /\ NothingUnplaced
  BY DataStays DEF IInv
<1>4. CASE End(a) /\ UNCHANGED <<wallet, order, money, reward>>
  <2>1. DataOK' /\ RowsTellTheOrder'
    BY <1>1, <1>3, <1>4 DEF DataOK, RowsTellTheOrder
  <2> QED  BY <1>4, <2>1, EndCommits
<1>5. CASE /\ ~(m > 0 /\ wallet.balance < n)
           /\ order' = [order EXCEPT ![o] = placed]
           /\ money' = [money EXCEPT !["wallet-debit"][o] = n]
           /\ IF m > 0
              THEN /\ wallet' = [wallet EXCEPT !.points = job[a].seen.points - m,
                                               !.balance = wallet.balance - n]
                   /\ reward' = [reward EXCEPT ![o] = redeemed]
              ELSE /\ wallet' = IF n = 0 THEN wallet
                                ELSE [wallet EXCEPT !.balance = job[a].seen.balance - n]
                   /\ UNCHANGED reward
           /\ Go(a, AfterOrder(o))
  <2> HIDE DEF o, n, m
  <2>1. placed \in Order /\ redeemed \in Reward
    BY <1>2 DEF Order, Reward, OrderStatus, RewardType
  <2>2. order' \in [Orders -> Order]
    BY <1>2, <1>3, <1>5, <2>1 DEF DataOK
  <2>3. \A q \in Orders : order'[q] = IF q = o THEN placed ELSE order[q]
    BY <1>3, <1>5 DEF DataOK
  <2>4. money' \in [Keys -> [Orders -> Nat]]
    BY <1>2, <1>3, <1>5 DEF DataOK
  <2>5. \A q \in Orders : /\ money'["wallet-debit"][q] = IF q = o THEN n ELSE money["wallet-debit"][q]
                          /\ money'["refund-wallet"][q] = money["refund-wallet"][q]
    BY <1>2, <1>3, <1>5 DEF DataOK, Keys
  <2>6. wallet' \in Wallet
    <3>1. CASE m > 0
      <4> DEFINE b == wallet.balance - n  p == job[a].seen.points - m
      <4>1. b \in Nat /\ p \in Int
        BY <1>2, <1>5, <3>1, Types DEF IInv
      <4>2. wallet' = [wallet EXCEPT !.points = p, !.balance = b]
        BY <1>5, <3>1
      <4> HIDE DEF b, p
      <4>3. wallet \in Wallet
        BY <1>3 DEF DataOK
      <4> QED  BY <4>1, <4>2, <4>3, WalletIs
    <3>2. CASE ~(m > 0)
      BY <1>2, <1>3, <1>5, <3>2, WalletIs DEF DataOK
    <3> QED  BY <3>1, <3>2
  <2>7. reward' \in [Orders -> Reward]
    BY <1>3, <1>5, <2>1 DEF DataOK
  <2>8. \A q \in Orders : reward'[q] = IF q = o /\ m > 0 THEN redeemed ELSE reward[q]
    BY <1>3, <1>5 DEF DataOK
  <2>9. DataOK'
    BY <1>1, <1>3, <2>2, <2>4, <2>6, <2>7 DEF DataOK
  <2>10. RowsTellTheOrder'
    <3> SUFFICES ASSUME NEW q \in Orders
                 PROVE  /\ money'["wallet-debit"][q] = order'[q].wallet
                        /\ order'[q].points > 0 <=> reward'[q].type = "REDEEM"
                        /\ reward'[q].type = "REDEEM" => reward'[q].points = order'[q].points
                        /\ money'["refund-wallet"][q] \in {0, money'["wallet-debit"][q]}
                        /\ q \in restored' <=> money'["refund-wallet"][q] > 0 /\ order'[q].points > 0
      BY DEF RowsTellTheOrder
    <3>1. CASE q = o
      <4>1. /\ order[q].wallet = 0 /\ order[q].points = 0
            /\ money["refund-wallet"][q] = 0 /\ q \notin restored /\ reward[q].type # "REDEEM"
        BY <1>2, <1>3, <3>1 DEF RowsTellTheOrder, NothingUnplaced
      <4> QED  BY <1>1, <1>2, <2>3, <2>5, <2>8, <3>1, <4>1
    <3>2. CASE q # o
      BY <1>1, <1>3, <2>3, <2>5, <2>8, <3>2 DEF RowsTellTheOrder
    <3> QED  BY <3>1, <3>2
  <2>11. NothingUnplaced'
    BY <1>3, <2>3 DEF NothingUnplaced
  <2>12. \A b \in Actors \ {a} : job[b].o # o
    BY <1>1 DEF IInv, OnePlanner, Planning, o
  <2>13. \A b \in Actors \ {a} : JobOK(job[b], order')
    <3> SUFFICES ASSUME NEW b \in Actors \ {a} PROVE JobOK(job[b], order')
      OBVIOUS
    <3>1. JobOK(job[b], order) /\ job[b].o # o
      BY <2>12 DEF IInv, JobsOK
    <3>2. CASE job[b].o \in Orders
      <4>1. order'[job[b].o] = order[job[b].o]
        BY <2>3, <3>1, <3>2
      <4> QED  BY <3>1, <4>1 DEF JobOK
    <3>3. CASE job[b].o \notin Orders
      BY <3>1, <3>3 DEF JobOK, OfAnOrder, Planning
    <3> QED  BY <3>2, <3>3
  <2>14. order'[o].status # "NONE"
    BY <1>2, <2>3
  <2> DEFINE j == AfterOrder(o)
  <2>15. j \in Job /\ JobOK(j, order') /\ j.at \notin Planning /\ j.o \in {o, None} /\ Go(a, j)
    BY <1>2, <1>5, <2>14, AfterOrderIsOK
  <2> HIDE DEF j
  <2>16. \A b \in Actors : job[b].at \in Planning => job[b].o # None
    BY NoneAssumption DEF IInv, JobsOK, JobOK
  <2>17. Alone(a, j) /\ Moves(a, j)
    BY <2>12, <2>15, <2>16, GoMoves DEF Alone, IInv
  <2> QED  BY <2>9, <2>10, <2>11, <2>13, <2>15, <2>17, Commits
<1> QED  BY <1>4, <1>5 DEF PayOrder

LEMMA CreditPreserves ==
    ASSUME IInv, NEW a \in Actors, Credit(a)
    PROVE  IInv'
<1> DEFINE o == job[a].o  n == job[a].n  k == job[a].k  t == TakenByRefund(o)
           j == IF k = "offer-cashback" THEN AfterCashback(o) ELSE NoJob
<1>1. job[a].at = "credit" /\ UNCHANGED <<order, reward, adjusted, manual>>
  BY DEF Credit
<1>2. /\ o \in Orders /\ order[o].status # "NONE" /\ n \in Nat
      /\ k \in Keys /\ k # "wallet-debit"
      /\ k = "refund-wallet" => n > 0 /\ n = order[o].wallet
  BY <1>1, Types DEF IInv, JobsOK, JobOK, OfAnOrder
<1>3. DataOK /\ RowsTellTheOrder /\ NothingUnplaced
  BY DataStays DEF IInv
<1>4. CASE End(a) /\ UNCHANGED <<wallet, money, restored, taken>>
  <2>1. DataOK' /\ RowsTellTheOrder'
    BY <1>1, <1>3, <1>4 DEF DataOK, RowsTellTheOrder
  <2> QED  BY <1>1, <1>4, <2>1, EndCommits
<1>5. CASE /\ money' = [money EXCEPT ![k][o] = n]
           /\ IF k = "refund-wallet"
              THEN /\ wallet' = [wallet EXCEPT !.balance = job[a].seen.balance + n,
                                   !.points = wallet.points + order[o].points - t]
                   /\ restored' = IF order[o].points > 0 THEN restored \cup {o} ELSE restored
                   /\ taken' = [taken EXCEPT ![o] = taken[o] + t]
              ELSE /\ wallet' = [wallet EXCEPT !.balance = job[a].seen.balance + n]
                   /\ UNCHANGED <<restored, taken>>
           /\ Go(a, j)
  <2>1. t \in Nat /\ order[o].points \in Nat /\ taken[o] \in Nat
        /\ job[a].seen.balance \in Nat /\ wallet.points \in Int
    BY <1>2, Types DEF IInv, TakenByRefund
  <2>2. j \in Job /\ JobOK(j, order) /\ j.at \notin Planning
        /\ j.o \in {o, None}
    BY <1>2, AfterCashbackIsOK, NoJobIsOK DEF Planning
  <2> HIDE DEF o, n, k, t, j
  <2>3. money' \in [Keys -> [Orders -> Nat]]
    BY <1>2, <1>3, <1>5 DEF DataOK
  <2>4. \A q \in Orders :
           /\ money'["wallet-debit"][q] = money["wallet-debit"][q]
           /\ money'["refund-wallet"][q] =
                IF k = "refund-wallet" /\ q = o THEN n ELSE money["refund-wallet"][q]
    BY <1>2, <1>3, <1>5 DEF DataOK, Keys
  <2>5. wallet' \in Wallet
    <3> DEFINE b == job[a].seen.balance + n  p == wallet.points + order[o].points - t
    <3>1. b \in Nat /\ p \in Int
      BY <1>2, <2>1
    <3>2. \/ wallet' = [wallet EXCEPT !.balance = b, !.points = p]
          \/ wallet' = [wallet EXCEPT !.balance = b]
      BY <1>5
    <3> HIDE DEF b, p
    <3>3. wallet \in Wallet
      BY <1>3 DEF DataOK
    <3> QED  BY <3>1, <3>2, <3>3, WalletIs
  <2>6. restored' \subseteq Orders /\ taken' \in [Orders -> Nat]
    <3>1. restored' \subseteq Orders
      BY <1>2, <1>3, <1>5 DEF DataOK
    <3>2. taken' = taken \/ taken' = [taken EXCEPT ![o] = taken[o] + t]
      BY <1>5
    <3>3. taken[o] + t \in Nat
      BY <2>1
    <3> QED  BY <1>3, <3>1, <3>2, <3>3 DEF DataOK
  <2>7. DataOK'
    BY <1>1, <1>3, <2>3, <2>5, <2>6 DEF DataOK
  <2>8. RowsTellTheOrder'
    <3> SUFFICES ASSUME NEW q \in Orders
                 PROVE  /\ money'["refund-wallet"][q] \in {0, money["wallet-debit"][q]}
                        /\ q \in restored' <=> money'["refund-wallet"][q] > 0 /\ order[q].points > 0
      BY <1>1, <1>3, <2>4 DEF RowsTellTheOrder
    <3>1. CASE q = o /\ k = "refund-wallet"
      <4>1. money["wallet-debit"][q] = n /\ n > 0
        BY <1>2, <1>3, <3>1 DEF RowsTellTheOrder
      <4>2. money'["refund-wallet"][q] = n
        BY <2>4, <3>1
      <4>3. order[q].points > 0 => q \in restored'
        BY <1>5, <3>1
      <4>4. q \in restored' => order[q].points > 0
        BY <1>3, <1>5, <3>1 DEF RowsTellTheOrder
      <4> QED  BY <4>1, <4>2, <4>3, <4>4
    <3>2. CASE ~(q = o /\ k = "refund-wallet")
      <4>1. money'["refund-wallet"][q] = money["refund-wallet"][q]
        BY <2>4, <3>2
      <4>2. q \in restored' <=> q \in restored
        BY <1>5, <3>2
      <4> QED  BY <1>3, <4>1, <4>2 DEF RowsTellTheOrder
    <3> QED  BY <3>1, <3>2
  <2>9. NothingUnplaced' /\ \A b \in Actors \ {a} : JobOK(job[b], order')
    BY <1>1, <1>3, OrdersStay DEF NothingUnplaced
  <2>10. Moves(a, j) /\ Alone(a, j) /\ JobOK(j, order')
    BY <1>1, <1>2, <1>5, <2>2, GoMoves, LaterIsAlone DEF IInv
  <2> QED  BY <2>2, <2>7, <2>8, <2>9, <2>10, Commits
<1> QED  BY <1>4, <1>5 DEF Credit

-----------------------------------------------------------------------------
(* The theorems *)

LEMMA Initially == Init => IInv
<1> SUFFICES ASSUME Init PROVE IInv
  OBVIOUS
<1>1. /\ order = [o \in Orders |-> [status |-> "NONE", wallet |-> 0, points |-> 0]]
      /\ money = [k \in Keys |-> [o \in Orders |-> 0]]
      /\ reward = [o \in Orders |-> [type |-> "NONE", points |-> 0]]
      /\ restored = {} /\ job = [a \in Actors |-> NoJob]
  BY DEF Init
<1>2. TypeOK
  <2>1. wallet \in Wallet /\ adjusted \in [balance : Int, points : Int]
    BY AmountAssumption DEF Init, Wallet
  <2>2. order \in [Orders -> Order] /\ reward \in [Orders -> Reward]
    BY <1>1 DEF Order, OrderStatus, Reward, RewardType
  <2>3. job \in [Actors -> Job]
    BY <1>1, NoJobIsOK
  <2>4. manual \in 0..MaxAdjustments /\ faults \in 0..MaxFaults
    BY BoundAssumption DEF Init
  <2> QED  BY <1>1, <2>1, <2>2, <2>3, <2>4 DEF Init, TypeOK
<1>3. RowsTellTheOrder /\ NothingUnplaced
  BY <1>1 DEF RowsTellTheOrder, NothingUnplaced, Keys
<1>4. JobsOK /\ OnePlanner
  BY <1>1, NoJobIsOK DEF JobsOK, OnePlanner, Planning
<1> QED  BY <1>2, <1>3, <1>4 DEF IInv

LEMMA Inductive == IInv /\ [Next]_vars => IInv'
<1> SUFFICES ASSUME IInv, [Next]_vars PROVE IInv'
  OBVIOUS
<1>1. ASSUME NEW a \in Actors, Step(a) PROVE IInv'
  BY <1>1, ReadForOrderPreserves, PayOrderPreserves, ReadForBonusPreserves, AddBonusPreserves,
     LookUpCreditPreserves, CreditPreserves, UnearnPreserves, AdjustPreserves, CrashPreserves
     DEF Step
<1>2. ASSUME NEW a \in Actors, Begin(a) PROVE IInv'
  <2>1. CASE \E n \in Adjustments : ReadForAdjustment(a, n)
    BY <2>1, AmountAssumption, ReadForAdjustmentPreserves
  <2>2. CASE \E o \in Orders : \/ PlanCheckout(a, o) \/ RefundOrder(a, o)
                               \/ RefundClaim(a, o) \/ CompleteOrder(a, o)
    BY <2>2, PlanCheckoutPreserves, RefundPreserves, CompleteOrderPreserves
  <2> QED  BY <1>2, <2>1, <2>2 DEF Begin
<1>3. ASSUME NEW o \in Orders, CancelOrder(o) PROVE IInv'
  BY <1>3, CancelOrderPreserves
<1>4. CASE UNCHANGED vars
  BY <1>4 DEF vars, IInv, TypeOK, RowsTellTheOrder, JobsOK, JobOK, OnePlanner, NothingUnplaced
<1> QED  BY <1>1, <1>2, <1>3, <1>4 DEF Next

LEMMA Invariant == Spec => []IInv
BY Initially, Inductive, PTL DEF Spec

(* The tables and the steps of handlers are well typed; in particular no   *)
(* interleaving of debits leaves a balance below zero.                     *)
THEOREM TypeCorrect == Spec => []TypeOK
<1>1. IInv => TypeOK
  BY DEF IInv
<1> QED  BY <1>1, Invariant, PTL

(* Whatever overlaps, dies or is repeated, an order's rows say what the    *)
(* order says: debited and redeemed once, given back at most once and in   *)
(* full.                                                                   *)
THEOREM RowsAlwaysTellTheOrder == Spec => []RowsTellTheOrder
<1>1. IInv => RowsTellTheOrder
  BY DEF IInv
<1> QED  BY <1>1, Invariant, PTL

-----------------------------------------------------------------------------
(* The sums.  As long as the system is calm one handler is under way, and  *)
(* what it has read before a write is the wallet as it is.                 *)

Writing == {"pay", "add bonus", "credit", "earn", "adjust", "adjust points"}

OneHandler == \A a, b \in Actors : job[a] # NoJob /\ job[b] # NoJob => a = b
SeenCurrent == \A a \in Actors : job[a].at \in Writing => job[a].seen = Seen
RewardsPlaced == \A o \in Orders : order[o].status = "NONE" => reward[o].type = "NONE"

BooksOK ==
    /\ RewardsPlaced
    /\ calm => OneHandler /\ SeenCurrent /\ MoneyMatchesRows /\ PointsMatchRows
BooksInv == IInv /\ BooksOK

(* One order's part of a sum changes. *)
LEMMA TotalMoves ==
    ASSUME NEW f \in [Orders -> Int], NEW g \in [Orders -> Int], NEW o \in Orders,
           \A q \in Orders : q # o => g[q] = f[q]
    PROVE  Total(f) \in Int /\ Total(g) = Total(f) - f[o] + g[o]
<1>1. SumFunctionOnSet(g, Orders) = SumFunctionOnSet(f, Orders) - f[o] + g[o]
  BY FinitelyManyOrders, SumUpdate
<1>2. SumFunctionOnSet(f, Orders) \in Int
  BY FinitelyManyOrders, SumIsInt
<1> QED  BY <1>1, <1>2 DEF Total

LEMMA RowsAreNumbers ==
    ASSUME TypeOK
    PROVE  /\ \A k \in Keys : money[k] \in [Orders -> Int] /\ Total(money[k]) \in Int
           /\ \A type : PointsOf(type) \in [Orders -> Int] /\ PointsIn(type) \in Int
           /\ taken \in [Orders -> Int] /\ Total(taken) \in Int
           /\ [o \in Orders |-> order[o].points] \in [Orders -> Int] /\ PointsBack \in Int
           /\ restored \in SUBSET Orders /\ IsFiniteSet(restored)
<1>1. ASSUME NEW f \in [Orders -> Int] PROVE Total(f) \in Int
  BY FinitelyManyOrders, SumIsInt DEF Total
<1>2. \A k \in Keys : money[k] \in [Orders -> Int]
  BY DEF TypeOK
<1>3. taken \in [Orders -> Int]
  BY DEF TypeOK
<1>4. ASSUME NEW type PROVE PointsOf(type) \in [Orders -> Int]
  BY Types DEF PointsOf
<1>5. restored \in SUBSET Orders /\ IsFiniteSet(restored)
  BY FinitelyManyOrders, FS_Subset DEF TypeOK
<1>6. [o \in Orders |-> order[o].points] \in [Orders -> Int]
  BY Types
<1>7. PointsBack \in Int
  BY <1>5, <1>6, SumIsInt DEF PointsBack
<1> QED  BY <1>1, <1>2, <1>3, <1>4, <1>5, <1>6, <1>7 DEF PointsIn

(* A row of wallet_transactions is entered. *)
LEMMA MoneyRowAdds ==
    ASSUME TypeOK, NEW k \in Keys, NEW o \in Orders, NEW n \in Nat, money[k][o] = 0,
           money' = [money EXCEPT ![k][o] = n]
    PROVE  /\ Total(money'[k]) = Total(money[k]) + n
           /\ \A i \in Keys \ {k} : Total(money'[i]) = Total(money[i])
<1>1. /\ money[k] \in [Orders -> Int] /\ money'[k] \in [Orders -> Int]
      /\ \A q \in Orders : money'[k][q] = IF q = o THEN n ELSE money[k][q]
      /\ \A i \in Keys \ {k} : money'[i] = money[i]
  BY DEF TypeOK
<1>2. Total(money[k]) \in Int /\ Total(money'[k]) = Total(money[k]) - money[k][o] + money'[k][o]
  BY <1>1, TotalMoves
<1>3. money'[k][o] = n
  BY <1>1
<1> QED  BY <1>1, <1>2, <1>3

(* A row of reward_transactions is entered. *)
LEMMA RewardRowAdds ==
    ASSUME TypeOK, NEW o \in Orders, NEW t \in {"EARN", "REDEEM"}, NEW n \in Nat,
           reward[o].type = "NONE", reward' = [reward EXCEPT ![o] = [type |-> t, points |-> n]]
    PROVE  /\ PointsIn(t)' = PointsIn(t) + n
           /\ \A s \in {"EARN", "REDEEM"} \ {t} : PointsIn(s)' = PointsIn(s)
<1>1. \A q \in Orders : reward'[q] = IF q = o THEN [type |-> t, points |-> n] ELSE reward[q]
  BY DEF TypeOK
<1>2. ASSUME NEW s \in {"EARN", "REDEEM"}
      PROVE  /\ PointsOf(s) \in [Orders -> Int] /\ PointsOf(s)' \in [Orders -> Int]
             /\ \A q \in Orders : q # o => PointsOf(s)'[q] = PointsOf(s)[q]
             /\ PointsOf(s)[o] = 0 /\ PointsOf(s)'[o] = IF s = t THEN n ELSE 0
  <2>1. PointsOf(s) \in [Orders -> Int]
    BY RowsAreNumbers
  <2>2. \A q \in Orders : PointsOf(s)'[q] = IF q = o THEN IF s = t THEN n ELSE 0
                                                     ELSE PointsOf(s)[q]
    BY <1>1 DEF PointsOf
  <2>3. PointsOf(s)' = [q \in Orders |-> PointsOf(s)'[q]]
    BY DEF PointsOf
  <2>4. PointsOf(s)' \in [Orders -> Int]
    BY <2>1, <2>2, <2>3
  <2>5. PointsOf(s)[o] = 0
    BY DEF PointsOf
  <2> QED  BY <2>1, <2>2, <2>4, <2>5
<1>3. ASSUME NEW s \in {"EARN", "REDEEM"}
      PROVE  PointsIn(s)' = PointsIn(s) + (IF s = t THEN n ELSE 0)
  <2>1. /\ Total(PointsOf(s)) \in Int
        /\ Total(PointsOf(s)') = Total(PointsOf(s)) - PointsOf(s)[o] + PointsOf(s)'[o]
    BY <1>2, TotalMoves
  <2>2. Total(PointsOf(s)') = Total(PointsOf(s)) + (IF s = t THEN n ELSE 0)
    BY <1>2, <2>1
  <2> QED  BY <2>2 DEF PointsIn
<1>4. \A s : PointsIn(s) \in Int
  BY RowsAreNumbers
<1> QED  BY <1>3, <1>4

(* The same handler goes on, or one starts while the others are idle.      *)
LEMMA CalmGo ==
    ASSUME BooksInv, NEW a \in Actors, NEW j, Start(a, j) \/ (Go(a, j) /\ job[a] # NoJob),
           calm', j.at \in Writing => j.seen = Seen'
    PROVE  calm /\ OneHandler' /\ SeenCurrent'
<1>1. calm /\ \A b \in Actors \ {a} : job[b] = NoJob
  BY DEF Start, Go, Quiet, BooksInv, BooksOK, OneHandler
<1>2. \A b \in Actors : job'[b] = IF b = a THEN j ELSE NoJob
  BY <1>1 DEF Start, Go, BooksInv, IInv, TypeOK
<1>3. NoJob.at \notin Writing
  BY NoJobIsOK DEF Writing
<1> QED  BY <1>1, <1>2, <1>3 DEF OneHandler, SeenCurrent

(* A handler that only reads. *)
LEMMA ReadsKeepBooks ==
    ASSUME BooksInv, NEW a \in Actors, NEW j, Start(a, j) \/ (Go(a, j) /\ job[a] # NoJob),
           j.at \in Writing => j.seen = Seen,
           UNCHANGED <<wallet, money, reward, restored, adjusted, taken>>,
           \A o \in Orders : /\ order'[o].points = order[o].points
                             /\ order'[o].status = "NONE" => order[o].status = "NONE"
    PROVE  BooksOK'
<1>1. RewardsPlaced'
  BY DEF BooksInv, BooksOK, RewardsPlaced
<1>2. PointsBack' = PointsBack
  <2>1. [o \in Orders |-> order'[o].points] = [o \in Orders |-> order[o].points]
    OBVIOUS
  <2> QED  BY <2>1 DEF PointsBack
<1>3. (MoneyMatchesRows' <=> MoneyMatchesRows) /\ (PointsMatchRows' <=> PointsMatchRows)
  BY <1>2 DEF MoneyMatchesRows, PointsMatchRows, PointsIn, PointsOf
<1>4. Seen' = Seen
  BY DEF Seen
<1>5. ASSUME calm' PROVE calm /\ OneHandler' /\ SeenCurrent'
  BY <1>4, <1>5, CalmGo
<1> QED  BY <1>1, <1>3, <1>5 DEF BooksInv, BooksOK

LEMMA StaysOK ==
    ASSUME BooksInv, NEW a \in Actors, NEW j, Start(a, j) \/ (Go(a, j) /\ job[a] # NoJob),
           j.at \in Writing => j.seen = Seen, UNCHANGED <<wallet, rows>>
    PROVE  BooksOK'
<1>1. UNCHANGED <<wallet, order, money, reward, restored, adjusted, taken>>
  BY DEF rows
<1> QED  BY <1>1, ReadsKeepBooks

(* A handler that writes: what it has read is current. *)
LEMMA WritesKeepBooks ==
    ASSUME BooksInv, NEW a \in Actors, NEW j, Go(a, j), job[a] # NoJob, j.at \notin Writing,
           RewardsPlaced',
           calm /\ (job[a].at \in Writing => job[a].seen = Seen)
                /\ MoneyMatchesRows /\ PointsMatchRows
             => MoneyMatchesRows' /\ PointsMatchRows'
    PROVE  BooksOK'
<1>1. ASSUME calm' PROVE calm /\ OneHandler' /\ SeenCurrent'
  BY <1>1, CalmGo
<1> QED  BY <1>1 DEF BooksInv, BooksOK, SeenCurrent

LEMMA Busy == \A a \in Actors : job[a].at # "idle" => job[a] # NoJob
BY NoJobIsOK

LEMMA BeginningKeepsBooks ==
    ASSUME BooksInv, NEW a \in Actors, Begin(a)
    PROVE  BooksOK'
<1>1. ASSUME NEW o \in Orders, PlanCheckout(a, o) PROVE BooksOK'
  <2> DEFINE n == IF Wish[o] <= wallet.balance THEN Wish[o] ELSE wallet.balance
             i == At("deduct", o)
             j == [i EXCEPT !.n = n, !.m = Redeem[o]]
  <2>1. i.at = "deduct"
    BY AtIs
  <2>2. j.at = i.at
    BY AtIs
  <2>3. Start(a, j) /\ UNCHANGED <<wallet, rows>>
    BY <1>1 DEF PlanCheckout
  <2> HIDE DEF i, j
  <2> QED  BY <2>1, <2>2, <2>3, StaysOK DEF Writing
<1>2. ASSUME NEW o \in Orders, NEW k, NEW n, Start(a, CreditOf(k, o, n)), UNCHANGED <<wallet, rows>>
      PROVE  BooksOK'
  <2>1. CreditOf(k, o, n).at = "lookup"
    BY AtIs DEF CreditOf
  <2> QED  BY <1>2, <2>1, StaysOK DEF Writing
<1>3. ASSUME NEW o \in Orders, CompleteOrder(a, o) PROVE BooksOK'
  <2>1. /\ order[o].status = "PLACED" /\ order' = [order EXCEPT ![o].status = "COMPLETED"]
        /\ UNCHANGED <<wallet, money, reward, restored, adjusted, taken>>
    BY <1>3 DEF CompleteOrder
  <2>2. \A q \in Orders : /\ order'[q].points = order[q].points
                          /\ order'[q].status = "NONE" => order[q].status = "NONE"
    BY <2>1 DEF BooksInv, IInv, TypeOK, Order
  <2>3. CASE UNCHANGED <<job, faults, calm>>
    <3>1. RewardsPlaced'
      BY <2>1, <2>2 DEF BooksInv, BooksOK, RewardsPlaced
    <3>2. [q \in Orders |-> order'[q].points] = [q \in Orders |-> order[q].points]
      BY <2>2
    <3>3. (MoneyMatchesRows' <=> MoneyMatchesRows) /\ (PointsMatchRows' <=> PointsMatchRows)
      BY <2>1, <3>2 DEF MoneyMatchesRows, PointsMatchRows, PointsIn, PointsOf, PointsBack
    <3> QED  BY <2>1, <2>3, <3>1, <3>3 DEF BooksInv, BooksOK, OneHandler, SeenCurrent, Seen
  <2>4. CASE Start(a, [At("earn", o) EXCEPT !.seen = Seen])
    <3> DEFINE j == [At("earn", o) EXCEPT !.seen = Seen]
    <3>1. j.seen = Seen
      BY AtIs
    <3>2. Start(a, j)
      BY <2>4
    <3> HIDE DEF j
    <3> QED  BY <2>1, <2>2, <3>1, <3>2, ReadsKeepBooks
  <2> QED  BY <1>3, <2>3, <2>4 DEF CompleteOrder
<1>4. ASSUME NEW n \in Adjustments, ReadForAdjustment(a, n) PROVE BooksOK'
  <2>1. PICK s, i : Start(a, [NoJob EXCEPT !.at = s, !.n = i, !.seen = Seen])
    BY <1>4 DEF ReadForAdjustment
  <2> DEFINE j == [NoJob EXCEPT !.at = s, !.n = i, !.seen = Seen]
  <2>2. j.seen = Seen
    BY DEF NoJob
  <2>3. Start(a, j) /\ UNCHANGED <<wallet, rows>>
    BY <1>4, <2>1 DEF ReadForAdjustment
  <2> HIDE DEF j
  <2> QED  BY <2>2, <2>3, StaysOK
<1> QED  BY <1>1, <1>2, <1>3, <1>4 DEF Begin, RefundOrder, RefundClaim

LEMMA AfterwardsReads ==
    \A o \in Orders : /\ AfterCashback(o).at \notin Writing /\ AfterOrder(o).at \notin Writing
                      /\ At("unearn", o).at \notin Writing
                      /\ NoJob.at \notin Writing
<1>1. \A o, s : At(s, o).at = s
  BY AtIs
<1>2. \A o, k, n : CreditOf(k, o, n).at = "lookup"
  BY AtIs DEF CreditOf
<1>3. NoJob.at \notin Writing
  BY NoJobIsOK DEF Writing
<1> QED  BY <1>1, <1>2, <1>3 DEF AfterCashback, AfterOrder, Writing

LEMMA ReadStepsKeepBooks ==
    ASSUME BooksInv, NEW a \in Actors, ReadForOrder(a) \/ ReadForBonus(a) \/ LookUpCredit(a)
    PROVE  BooksOK'
<1>1. job[a] # NoJob /\ UNCHANGED <<wallet, rows>>
  BY Busy DEF ReadForOrder, ReadForBonus, LookUpCredit
<1>2. ASSUME NEW s \in Steps, Go(a, ReadOf(a, s)) PROVE BooksOK'
  <2>1. ReadOf(a, s).seen = Seen
    BY Types DEF BooksInv, IInv, ReadOf, Job
  <2> QED  BY <1>1, <1>2, <2>1, StaysOK
<1>3. ASSUME NEW j, Go(a, j), j.at \notin Writing PROVE BooksOK'
  BY <1>1, <1>3, StaysOK
<1>4. CASE ReadForOrder(a)
  BY <1>2, <1>3, <1>4, AfterwardsReads, NoJobIsOK DEF ReadForOrder, ReadOf, End, Steps, Writing
<1>5. CASE ReadForBonus(a)
  BY <1>2, <1>5 DEF ReadForBonus, ReadOf, Steps
<1>6. CASE LookUpCredit(a)
  <2>1. job[a].o \in Orders
    BY <1>6 DEF LookUpCredit, BooksInv, IInv, JobsOK, JobOK, OfAnOrder
  <2>2. CASE money[job[a].k][job[a].o] = 0
    BY <1>2, <1>6, <2>2 DEF LookUpCredit, ReadOf, Steps
  <2>3. CASE money[job[a].k][job[a].o] # 0
    <3>1. PICK j \in {AfterCashback(job[a].o), At("unearn", job[a].o), NoJob} : Go(a, j)
      BY <1>6, <2>3 DEF LookUpCredit
    <3> QED  BY <1>3, <2>1, <3>1, AfterwardsReads
  <2> QED  BY <2>2, <2>3
<1> QED  BY <1>4, <1>5, <1>6

LEMMA CrashKeepsBooks ==
    ASSUME BooksInv, NEW a \in Actors, Crash(a)
    PROVE  BooksOK'
<1>1. RewardsPlaced' /\ calm' = FALSE
  BY DEF Crash, rows, BooksInv, BooksOK, RewardsPlaced
<1> QED  BY <1>1 DEF BooksOK

LEMMA CancelKeepsBooks ==
    ASSUME BooksInv, NEW o \in Orders, CancelOrder(o)
    PROVE  BooksOK'
<1>1. /\ order[o].status = "PLACED" /\ order' = [order EXCEPT ![o].status = "CANCELLED"]
      /\ UNCHANGED <<wallet, money, reward, restored, adjusted, taken, job, calm>>
  BY DEF CancelOrder
<1>2. \A q \in Orders : /\ order'[q].points = order[q].points
                        /\ order'[q].status = "NONE" => order[q].status = "NONE"
  BY <1>1 DEF BooksInv, IInv, TypeOK, Order
<1>3. RewardsPlaced'
  BY <1>1, <1>2 DEF BooksInv, BooksOK, RewardsPlaced
<1>4. [q \in Orders |-> order'[q].points] = [q \in Orders |-> order[q].points]
  BY <1>2
<1>5. (MoneyMatchesRows' <=> MoneyMatchesRows) /\ (PointsMatchRows' <=> PointsMatchRows)
  BY <1>1, <1>4 DEF MoneyMatchesRows, PointsMatchRows, PointsIn, PointsOf, PointsBack
<1> QED  BY <1>1, <1>3, <1>5 DEF BooksInv, BooksOK, OneHandler, SeenCurrent, Seen

(* Earned points: the row and the wallet get the same. *)
LEMMA EarningKeepsBooks ==
    ASSUME BooksInv, NEW a \in Actors, AddBonus(a) \/ EarnPoints(a)
    PROVE  BooksOK'
<1> DEFINE o == job[a].o
<1>1. /\ job[a].at \in {"add bonus", "earn"} /\ o \in Orders /\ order[o].status # "NONE"
      /\ Go(a, NoJob) /\ UNCHANGED <<order, money, restored, adjusted, taken>>
  BY DEF AddBonus, EarnPoints, End, BooksInv, IInv, JobsOK, JobOK, OfAnOrder
<1>2. PICK p \in Nat :
         \/ /\ reward[o].type = "NONE"
            /\ wallet' = [wallet EXCEPT !.points = job[a].seen.points + p]
            /\ reward' = [reward EXCEPT ![o] = [type |-> "EARN", points |-> p]]
         \/ UNCHANGED <<wallet, reward>>
  <2>1. Bonus[o] \in Nat /\ Earns[o] \in Nat
    BY <1>1, AmountAssumption DEF Amounts
  <2> QED  BY <2>1 DEF AddBonus, EarnPoints
<1>3. job[a] # NoJob /\ NoJob.at \notin Writing /\ job[a].at \in Writing
  BY <1>1, Busy, NoJobIsOK DEF Writing
<1>4. TypeOK
  BY DEF BooksInv, IInv
<1> HIDE DEF o
<1>5. CASE UNCHANGED <<wallet, reward>>
  <2>1. RewardsPlaced' /\ (MoneyMatchesRows' <=> MoneyMatchesRows)
                       /\ (PointsMatchRows' <=> PointsMatchRows)
    BY <1>1, <1>5 DEF BooksInv, BooksOK, RewardsPlaced, MoneyMatchesRows, PointsMatchRows,
                      PointsIn, PointsOf, PointsBack
  <2> QED  BY <1>1, <1>3, <2>1, WritesKeepBooks
<1>6. CASE /\ reward[o].type = "NONE"
           /\ wallet' = [wallet EXCEPT !.points = job[a].seen.points + p]
           /\ reward' = [reward EXCEPT ![o] = [type |-> "EARN", points |-> p]]
  <2>1. RewardsPlaced'
    BY <1>1, <1>4, <1>6 DEF BooksInv, BooksOK, RewardsPlaced, TypeOK
  <2>2. wallet'.balance = wallet.balance /\ wallet'.points = job[a].seen.points + p
    BY <1>4, <1>6 DEF TypeOK, Wallet
  <2>3. MoneyMatchesRows' <=> MoneyMatchesRows
    BY <1>1, <2>2 DEF MoneyMatchesRows
  <2>4. ASSUME job[a].seen = Seen, PointsMatchRows PROVE PointsMatchRows'
    <3>1. wallet'.points = wallet.points + p
      BY <2>2, <2>4 DEF Seen
    <3>2. PointsIn("EARN")' = PointsIn("EARN") + p /\ PointsIn("REDEEM")' = PointsIn("REDEEM")
      BY <1>1, <1>4, <1>6, RewardRowAdds
    <3>3. PointsBack' = PointsBack
      BY <1>1 DEF PointsBack
    <3>4. /\ PointsIn("EARN") \in Int /\ PointsIn("REDEEM") \in Int /\ Total(taken) \in Int
          /\ PointsBack \in Int /\ adjusted.points \in Int /\ Opening.points \in Int
      BY <1>4, RowsAreNumbers, Types, AmountAssumption
    <3>5. wallet.points = Opening.points + adjusted.points
             + PointsIn("EARN") - PointsIn("REDEEM") - Total(taken) + PointsBack
      BY <2>4 DEF PointsMatchRows
    <3>6. Total(taken') = Total(taken) /\ adjusted'.points = adjusted.points
      BY <1>1
    <3>7. wallet'.points = Opening.points + adjusted'.points
             + PointsIn("EARN")' - PointsIn("REDEEM")' - Total(taken') + PointsBack'
      BY <3>1, <3>2, <3>3, <3>4, <3>5, <3>6
    <3> QED  BY <3>7 DEF PointsMatchRows
  <2> QED  BY <1>1, <1>3, <2>1, <2>3, <2>4, WritesKeepBooks
<1> QED  BY <1>2, <1>5, <1>6

LEMMA UnearnKeepsBooks ==
    ASSUME BooksInv, NEW a \in Actors, Unearn(a)
    PROVE  BooksOK'
<1> DEFINE o == job[a].o  p == reward[o].points
<1>1. /\ job[a].at = "unearn" /\ Go(a, NoJob)
      /\ wallet' = [wallet EXCEPT !.points = wallet.points - p]
      /\ taken' = [taken EXCEPT ![o] = taken[o] + p]
      /\ UNCHANGED <<order, money, reward, restored, adjusted>>
  BY DEF Unearn, End
<1>2. TypeOK /\ o \in Orders /\ p \in Nat
  BY <1>1, Types DEF BooksInv, IInv, JobsOK, JobOK, OfAnOrder
<1>3. job[a] # NoJob /\ NoJob.at \notin Writing
  BY <1>1, Busy, NoJobIsOK DEF Writing
<1>4. RewardsPlaced'
  BY <1>1 DEF BooksInv, BooksOK, RewardsPlaced
<1>5. wallet'.balance = wallet.balance /\ wallet'.points = wallet.points - p
  BY <1>1, <1>2 DEF TypeOK, Wallet
<1>6. MoneyMatchesRows' <=> MoneyMatchesRows
  BY <1>1, <1>5 DEF MoneyMatchesRows
<1> HIDE DEF o, p
<1>7. Total(taken') = Total(taken) + p /\ Total(taken) \in Int
  <2>1. taken[o] \in Int /\ taken[o] + p \in Int
    BY <1>2, Types
  <2>2. taken \in [Orders -> Int] /\ taken' \in [Orders -> Int]
    BY <1>1, <1>2, <2>1, RowsAreNumbers
  <2>3. taken'[o] = taken[o] + p /\ \A q \in Orders : q # o => taken'[q] = taken[q]
    BY <1>1, <1>2, <2>2
  <2>4. Total(taken) \in Int /\ Total(taken') = Total(taken) - taken[o] + taken'[o]
    BY <1>2, <2>2, <2>3, TotalMoves
  <2> QED  BY <1>2, <2>1, <2>3, <2>4
<1>8. ASSUME PointsMatchRows PROVE PointsMatchRows'
  <2>1. PointsBack' = PointsBack /\ \A t : PointsIn(t)' = PointsIn(t)
    BY <1>1 DEF PointsBack, PointsIn, PointsOf
  <2>2. /\ PointsIn("EARN") \in Int /\ PointsIn("REDEEM") \in Int
        /\ PointsBack \in Int /\ adjusted.points \in Int /\ Opening.points \in Int
    BY <1>2, RowsAreNumbers, Types, AmountAssumption
  <2> QED  BY <1>1, <1>2, <1>5, <1>7, <1>8, <2>1, <2>2 DEF PointsMatchRows
<1> QED  BY <1>1, <1>3, <1>4, <1>6, <1>8, WritesKeepBooks

LEMMA AdjustKeepsBooks ==
    ASSUME BooksInv, NEW a \in Actors, Adjust(a)
    PROVE  BooksOK'
<1> DEFINE n == job[a].n  seen == job[a].seen
<1>1. Go(a, NoJob) /\ UNCHANGED <<order, money, reward, restored, taken>>
  BY DEF Adjust, End
<1>2. TypeOK /\ n \in Int /\ seen.balance \in Int /\ seen.points \in Int
  BY Types DEF BooksInv, IInv
<1>3. job[a] # NoJob /\ NoJob.at \notin Writing /\ job[a].at \in Writing
  BY Busy, NoJobIsOK DEF Writing, Adjust
<1>4. RewardsPlaced'
  BY <1>1 DEF BooksInv, BooksOK, RewardsPlaced
<1>5. /\ PointsBack' = PointsBack /\ \A t : PointsIn(t)' = PointsIn(t)
      /\ \A k \in Keys : Total(money'[k]) = Total(money[k]) /\ Total(money[k]) \in Int
      /\ PointsIn("EARN") \in Int /\ PointsIn("REDEEM") \in Int /\ Total(taken) \in Int
      /\ PointsBack \in Int
      /\ Opening.balance \in Int /\ Opening.points \in Int
      /\ adjusted.balance \in Int /\ adjusted.points \in Int
  <2>1. PointsBack' = PointsBack /\ \A t : PointsIn(t)' = PointsIn(t)
    BY <1>1 DEF PointsBack, PointsIn, PointsOf
  <2>2. \A k \in Keys : Total(money'[k]) = Total(money[k]) /\ Total(money[k]) \in Int
    BY <1>1, <1>2, RowsAreNumbers
  <2>3. /\ PointsIn("EARN") \in Int /\ PointsIn("REDEEM") \in Int /\ Total(taken) \in Int
        /\ PointsBack \in Int
    BY <1>2, RowsAreNumbers
  <2>4. /\ Opening.balance \in Int /\ Opening.points \in Int
        /\ adjusted.balance \in Int /\ adjusted.points \in Int
    BY <1>2, Types, AmountAssumption
  <2> QED  BY <2>1, <2>2, <2>3, <2>4
<1>6. /\ Total(money["offer-cashback"]) \in Int /\ Total(money["refund-wallet"]) \in Int
      /\ Total(money["claim-wallet"]) \in Int /\ Total(money["wallet-debit"]) \in Int
  BY <1>5 DEF Keys
<1> HIDE DEF n
<1>7. CASE /\ wallet' = [wallet EXCEPT !.balance = seen.balance + n]
           /\ adjusted' = [adjusted EXCEPT !.balance = adjusted.balance + n]
  <2>1. /\ wallet'.balance = seen.balance + n /\ wallet'.points = wallet.points
        /\ adjusted'.balance = adjusted.balance + n /\ adjusted'.points = adjusted.points
    BY <1>2, <1>7 DEF TypeOK, Wallet
  <2>2. PointsMatchRows' <=> PointsMatchRows
    BY <1>1, <1>5, <2>1 DEF PointsMatchRows
  <2>3. ASSUME seen = Seen, MoneyMatchesRows PROVE MoneyMatchesRows'
    <3>1. wallet'.balance = wallet.balance + n
      BY <2>1, <2>3 DEF Seen
    <3> QED  BY <1>1, <1>2, <1>5, <1>6, <2>1, <2>3, <3>1 DEF MoneyMatchesRows
  <2> QED  BY <1>1, <1>3, <1>4, <2>2, <2>3, WritesKeepBooks
<1>8. CASE /\ wallet' = [wallet EXCEPT !.points = seen.points + n]
           /\ adjusted' = [adjusted EXCEPT !.points = adjusted.points + n]
  <2>1. /\ wallet'.points = seen.points + n /\ wallet'.balance = wallet.balance
        /\ adjusted'.points = adjusted.points + n /\ adjusted'.balance = adjusted.balance
    BY <1>2, <1>8 DEF TypeOK, Wallet
  <2>2. MoneyMatchesRows' <=> MoneyMatchesRows
    BY <1>1, <2>1 DEF MoneyMatchesRows
  <2>3. ASSUME seen = Seen, PointsMatchRows PROVE PointsMatchRows'
    <3>1. wallet'.points = wallet.points + n
      BY <2>1, <2>3 DEF Seen
    <3> QED  BY <1>1, <1>2, <1>5, <2>1, <2>3, <3>1 DEF PointsMatchRows
  <2> QED  BY <1>1, <1>3, <1>4, <2>2, <2>3, WritesKeepBooks
<1> QED  BY <1>7, <1>8 DEF Adjust, n

(* An order is paid: the wallet loses what the order's rows say. *)
LEMMA PayingKeepsBooks ==
    ASSUME BooksInv, NEW a \in Actors, PayOrder(a)
    PROVE  BooksOK'
<1> DEFINE o == job[a].o  n == job[a].n  m == job[a].m
           placed == [status |-> "PLACED", wallet |-> n, points |-> m]
           redeemed == [type |-> "REDEEM", points |-> m]
<1>1. /\ job[a].at = "pay" /\ UNCHANGED <<restored, adjusted, taken>>
      /\ TypeOK /\ RowsTellTheOrder /\ NothingUnplaced /\ RewardsPlaced
  BY DEF PayOrder, BooksInv, BooksOK, IInv
<1>2. o \in Orders /\ order[o].status = "NONE" /\ n \in Nat /\ m \in Nat
  BY <1>1 DEF BooksInv, IInv, JobsOK, JobOK, Planning
<1>3. job[a] # NoJob /\ NoJob.at \notin Writing /\ AfterOrder(o).at \notin Writing
  BY <1>1, <1>2, Busy, AfterwardsReads
<1>4. CASE End(a) /\ UNCHANGED <<wallet, order, money, reward>>
  BY <1>1, <1>3, <1>4, StaysOK DEF rows, End
<1>5. CASE /\ order' = [order EXCEPT ![o] = placed]
           /\ money' = [money EXCEPT !["wallet-debit"][o] = n]
           /\ IF m > 0
              THEN /\ wallet' = [wallet EXCEPT !.points = job[a].seen.points - m,
                                               !.balance = wallet.balance - n]
                   /\ reward' = [reward EXCEPT ![o] = redeemed]
              ELSE /\ wallet' = IF n = 0 THEN wallet
                                ELSE [wallet EXCEPT !.balance = job[a].seen.balance - n]
                   /\ UNCHANGED reward
           /\ Go(a, AfterOrder(o))
  <2>1. /\ money["wallet-debit"][o] = 0 /\ reward[o].type = "NONE" /\ o \notin restored
        /\ \A k \in Keys : money[k] \in [Orders -> Nat]
    BY <1>1, <1>2 DEF RowsTellTheOrder, NothingUnplaced, RewardsPlaced, TypeOK
  <2> HIDE DEF o, n, m
  <2>2. \A q \in Orders : order'[q] = IF q = o THEN placed ELSE order[q]
    BY <1>1, <1>5 DEF TypeOK
  <2>3. \A q \in Orders : q # o => reward'[q] = reward[q]
    BY <1>1, <1>5 DEF TypeOK
  <2>4. RewardsPlaced'
    <3>1. order'[o].status = "PLACED"
      BY <1>2, <2>2
    <3> QED  BY <1>1, <2>2, <2>3, <3>1 DEF RewardsPlaced
  <2>5. PointsBack' = PointsBack
    <3> DEFINE f == [q \in Orders |-> order[q].points]
               g == [q \in Orders |-> order'[q].points]
    <3>1. f \in [Orders -> Int]
      BY <1>1, RowsAreNumbers
    <3>2. g \in [Orders -> Int]
      BY <1>1, <1>2, <2>2, Types
    <3>3. restored \in SUBSET Orders /\ IsFiniteSet(restored)
      BY <1>1, RowsAreNumbers
    <3>4. \A q \in restored : f[q] = g[q]
      BY <2>1, <2>2, <3>3
    <3> HIDE DEF f, g
    <3>5. SumFunctionOnSet(f, restored) = SumFunctionOnSet(g, restored)
      BY <3>1, <3>2, <3>3, <3>4, SumSame
    <3> QED  BY <1>1, <3>5 DEF PointsBack, f, g
  <2>6. PointsIn("REDEEM")' = PointsIn("REDEEM") + m /\ PointsIn("EARN")' = PointsIn("EARN")
    <3>1. CASE m > 0
      BY <1>1, <1>2, <1>5, <2>1, <3>1, RewardRowAdds
    <3>2. CASE ~(m > 0)
      <4>1. m = 0 /\ \A t : PointsIn(t)' = PointsIn(t)
        BY <1>2, <1>5, <3>2 DEF PointsIn, PointsOf
      <4>2. PointsIn("REDEEM") \in Int
        BY <1>1, RowsAreNumbers
      <4> QED  BY <4>1, <4>2
    <3> QED  BY <3>1, <3>2
  <2>7. /\ Total(money'["wallet-debit"]) = Total(money["wallet-debit"]) + n
        /\ Total(money'["offer-cashback"]) = Total(money["offer-cashback"])
        /\ Total(money'["refund-wallet"]) = Total(money["refund-wallet"])
        /\ Total(money'["claim-wallet"]) = Total(money["claim-wallet"])
    BY <1>1, <1>2, <1>5, <2>1, MoneyRowAdds DEF Keys
  <2>8. ASSUME job[a].seen = Seen
        PROVE  wallet'.balance = wallet.balance - n /\ wallet'.points = wallet.points - m
    <3>1. /\ job[a].seen.balance = wallet.balance /\ job[a].seen.points = wallet.points
          /\ wallet \in Wallet /\ wallet.balance \in Int /\ wallet.points \in Int
      BY <1>1, <2>8, Types DEF Seen, TypeOK
    <3>2. CASE m > 0
      BY <1>5, <3>1, <3>2 DEF Wallet
    <3>3. CASE ~(m > 0) /\ n = 0
      <4>1. wallet' = wallet /\ m = 0
        BY <1>2, <1>5, <3>3
      <4> QED  BY <3>1, <3>3, <4>1
    <3>4. CASE ~(m > 0) /\ n # 0
      <4>1. wallet' = [wallet EXCEPT !.balance = wallet.balance - n] /\ m = 0
        BY <1>2, <1>5, <3>1, <3>4
      <4>2. wallet'.balance = wallet.balance - n /\ wallet'.points = wallet.points
        BY <3>1, <4>1 DEF Wallet
      <4> QED  BY <3>1, <4>1, <4>2
    <3> QED  BY <3>2, <3>3, <3>4
  <2>9. /\ Total(money["offer-cashback"]) \in Int /\ Total(money["refund-wallet"]) \in Int
        /\ Total(money["claim-wallet"]) \in Int /\ Total(money["wallet-debit"]) \in Int
    BY <1>1, RowsAreNumbers DEF Keys
  <2>10. /\ Opening.balance \in Int /\ Opening.points \in Int
         /\ adjusted.balance \in Int /\ adjusted.points \in Int
         /\ PointsIn("EARN") \in Int /\ PointsIn("REDEEM") \in Int /\ Total(taken) \in Int
         /\ PointsBack \in Int
    BY <1>1, RowsAreNumbers, Types, AmountAssumption
  <2>11. ASSUME job[a].seen = Seen, MoneyMatchesRows PROVE MoneyMatchesRows'
    BY <1>1, <1>2, <2>7, <2>8, <2>9, <2>10, <2>11 DEF MoneyMatchesRows
  <2>12. ASSUME job[a].seen = Seen, PointsMatchRows PROVE PointsMatchRows'
    BY <1>1, <1>2, <2>5, <2>6, <2>8, <2>10, <2>12 DEF PointsMatchRows
  <2> QED  BY <1>1, <1>3, <1>5, <2>4, <2>11, <2>12, WritesKeepBooks DEF Writing
<1> QED  BY <1>4, <1>5 DEF PayOrder

(* A credit: the wallet gains what the new row says, and a refund gives    *)
(* the redeemed points back.                                               *)
LEMMA CreditKeepsBooks ==
    ASSUME BooksInv, NEW a \in Actors, Credit(a)
    PROVE  BooksOK'
<1> DEFINE o == job[a].o  n == job[a].n  k == job[a].k  t == TakenByRefund(o)
           j == IF k = "offer-cashback" THEN AfterCashback(o) ELSE NoJob
<1>1. /\ job[a].at = "credit" /\ UNCHANGED <<order, reward, adjusted>>
      /\ TypeOK /\ RowsTellTheOrder /\ RewardsPlaced
  BY DEF Credit, BooksInv, BooksOK, IInv
<1>2. /\ o \in Orders /\ n \in Nat /\ k \in Keys /\ k # "wallet-debit"
  BY <1>1, Types DEF BooksInv, IInv, JobsOK, JobOK, OfAnOrder
<1>3. job[a] # NoJob /\ NoJob.at \notin Writing /\ j.at \notin Writing
  BY <1>1, <1>2, Busy, AfterwardsReads
<1>4. CASE End(a) /\ UNCHANGED <<wallet, money, restored, taken>>
  BY <1>1, <1>3, <1>4, StaysOK DEF rows, End
<1>5. CASE /\ money[k][o] = 0
           /\ money' = [money EXCEPT ![k][o] = n]
           /\ IF k = "refund-wallet"
              THEN /\ wallet' = [wallet EXCEPT !.balance = job[a].seen.balance + n,
                                   !.points = wallet.points + order[o].points - t]
                   /\ restored' = IF order[o].points > 0 THEN restored \cup {o} ELSE restored
                   /\ taken' = [taken EXCEPT ![o] = taken[o] + t]
              ELSE /\ wallet' = [wallet EXCEPT !.balance = job[a].seen.balance + n]
                   /\ UNCHANGED <<restored, taken>>
           /\ Go(a, j)
  <2>1. t \in Nat /\ order[o].points \in Nat
    BY <1>1, <1>2, Types DEF TakenByRefund
  <2> HIDE DEF o, n, k, t, j
  <2>2. RewardsPlaced' /\ \A s : PointsIn(s)' = PointsIn(s)
    BY <1>1 DEF RewardsPlaced, PointsIn, PointsOf
  <2>3. /\ Total(money["offer-cashback"]) \in Int /\ Total(money["refund-wallet"]) \in Int
        /\ Total(money["claim-wallet"]) \in Int /\ Total(money["wallet-debit"]) \in Int
    BY <1>1, RowsAreNumbers DEF Keys
  <2>4. /\ Opening.balance \in Int /\ Opening.points \in Int
        /\ adjusted.balance \in Int /\ adjusted.points \in Int
        /\ PointsIn("EARN") \in Int /\ PointsIn("REDEEM") \in Int /\ Total(taken) \in Int
        /\ PointsBack \in Int
    BY <1>1, RowsAreNumbers, Types, AmountAssumption
  <2>5. Total(money'["offer-cashback"]) + Total(money'["refund-wallet"])
          + Total(money'["claim-wallet"]) - Total(money'["wallet-debit"])
        = Total(money["offer-cashback"]) + Total(money["refund-wallet"])
          + Total(money["claim-wallet"]) - Total(money["wallet-debit"]) + n
    <3>1. /\ Total(money'[k]) = Total(money[k]) + n
          /\ \A i \in Keys \ {k} : Total(money'[i]) = Total(money[i])
      BY <1>1, <1>2, <1>5, MoneyRowAdds
    <3>2. k \in {"offer-cashback", "refund-wallet", "claim-wallet"}
      BY <1>2 DEF Keys
    <3>3. CASE k = "offer-cashback"
      <4>1. /\ Total(money'["offer-cashback"]) = Total(money["offer-cashback"]) + n
            /\ Total(money'["refund-wallet"]) = Total(money["refund-wallet"])
            /\ Total(money'["claim-wallet"]) = Total(money["claim-wallet"])
            /\ Total(money'["wallet-debit"]) = Total(money["wallet-debit"])
        BY <3>1, <3>3 DEF Keys
      <4> QED  BY <1>2, <2>3, <4>1
    <3>4. CASE k = "refund-wallet"
      <4>1. /\ Total(money'["offer-cashback"]) = Total(money["offer-cashback"])
            /\ Total(money'["refund-wallet"]) = Total(money["refund-wallet"]) + n
            /\ Total(money'["claim-wallet"]) = Total(money["claim-wallet"])
            /\ Total(money'["wallet-debit"]) = Total(money["wallet-debit"])
        BY <3>1, <3>4 DEF Keys
      <4> QED  BY <1>2, <2>3, <4>1
    <3>5. CASE k = "claim-wallet"
      <4>1. /\ Total(money'["offer-cashback"]) = Total(money["offer-cashback"])
            /\ Total(money'["refund-wallet"]) = Total(money["refund-wallet"])
            /\ Total(money'["claim-wallet"]) = Total(money["claim-wallet"]) + n
            /\ Total(money'["wallet-debit"]) = Total(money["wallet-debit"])
        BY <3>1, <3>5 DEF Keys
      <4> QED  BY <1>2, <2>3, <4>1
    <3> QED  BY <3>2, <3>3, <3>4, <3>5
  <2>6. \A i \in Keys : Total(money'[i]) \in Int
    <3>1. \A i \in Keys : Total(money[i]) \in Int
      BY <1>1, RowsAreNumbers
    <3>2. /\ Total(money'[k]) = Total(money[k]) + n
          /\ \A i \in Keys \ {k} : Total(money'[i]) = Total(money[i])
      BY <1>1, <1>2, <1>5, MoneyRowAdds
    <3>3. Total(money'[k]) \in Int
      BY <1>2, <3>1, <3>2
    <3> QED  BY <3>1, <3>2, <3>3
  <2>7. /\ Total(money'["offer-cashback"]) \in Int /\ Total(money'["refund-wallet"]) \in Int
        /\ Total(money'["claim-wallet"]) \in Int /\ Total(money'["wallet-debit"]) \in Int
    BY <2>6 DEF Keys
  <2>8. wallet'.balance = job[a].seen.balance + n
    BY <1>1, <1>5 DEF TypeOK, Wallet
  <2>9. ASSUME job[a].seen = Seen, MoneyMatchesRows PROVE MoneyMatchesRows'
    <3>1. wallet'.balance = wallet.balance + n
      BY <2>8, <2>9 DEF Seen
    <3> QED  BY <1>1, <1>2, <2>3, <2>4, <2>5, <2>7, <2>9, <3>1 DEF MoneyMatchesRows
  <2>10. ASSUME PointsMatchRows PROVE PointsMatchRows'
    <3>1. CASE k # "refund-wallet"
      <4>1. wallet'.points = wallet.points /\ UNCHANGED <<restored, taken>>
        BY <1>1, <1>5, <3>1 DEF TypeOK, Wallet
      <4>2. PointsBack' = PointsBack
        BY <1>1, <4>1 DEF PointsBack
      <4> QED  BY <1>1, <2>2, <2>10, <4>1, <4>2 DEF PointsMatchRows
    <3>2. CASE k = "refund-wallet"
      <4>1. wallet'.points = wallet.points + order[o].points - t
        BY <1>1, <1>5, <3>2 DEF TypeOK, Wallet
      <4>2. Total(taken') = Total(taken) + t
        <5>1. taken[o] \in Int /\ taken[o] + t \in Int
          BY <1>1, <1>2, <2>1, Types
        <5>2. taken' = [taken EXCEPT ![o] = taken[o] + t]
          BY <1>5, <3>2
        <5>3. taken \in [Orders -> Int] /\ taken' \in [Orders -> Int]
          BY <1>1, <5>1, <5>2, RowsAreNumbers
        <5>4. taken'[o] = taken[o] + t /\ \A q \in Orders : q # o => taken'[q] = taken[q]
          BY <1>2, <5>2, <5>3
        <5>5. Total(taken) \in Int /\ Total(taken') = Total(taken) - taken[o] + taken'[o]
          BY <1>2, <5>3, <5>4, TotalMoves
        <5> QED  BY <2>1, <5>1, <5>4, <5>5
      <4>3. PointsBack' = PointsBack + order[o].points
        <5> DEFINE f == [q \in Orders |-> order[q].points]
        <5>1. /\ f \in [Orders -> Int] /\ f[o] = order[o].points
              /\ restored \in SUBSET Orders /\ IsFiniteSet(restored)
          BY <1>1, <1>2, RowsAreNumbers
        <5>2. o \notin restored
          BY <1>1, <1>2, <1>5, <3>2 DEF RowsTellTheOrder
        <5>3. PointsBack' = SumFunctionOnSet(f, restored') /\ PointsBack = SumFunctionOnSet(f, restored)
          BY <1>1 DEF PointsBack
        <5> HIDE DEF f
        <5>4. SumFunctionOnSet(f, restored \cup {o}) = f[o] + SumFunctionOnSet(f, restored)
          BY <1>2, <5>1, <5>2, SumAdd
        <5>5. CASE order[o].points > 0
          <6>1. restored' = restored \cup {o}
            BY <1>5, <3>2, <5>5
          <6> QED  BY <2>1, <2>4, <5>1, <5>3, <5>4, <6>1
        <5>6. CASE ~(order[o].points > 0)
          <6>1. restored' = restored /\ order[o].points = 0
            BY <1>5, <2>1, <3>2, <5>6
          <6> QED  BY <2>4, <5>3, <6>1
        <5> QED  BY <5>5, <5>6
      <4>4. adjusted'.points = adjusted.points /\ wallet.points \in Int
        BY <1>1, Types
      <4>5. wallet.points = Opening.points + adjusted.points
               + PointsIn("EARN") - PointsIn("REDEEM") - Total(taken) + PointsBack
        BY <2>10 DEF PointsMatchRows
      <4>6. wallet'.points = Opening.points + adjusted'.points
               + PointsIn("EARN")' - PointsIn("REDEEM")' - Total(taken') + PointsBack'
        BY <2>1, <2>2, <2>4, <4>1, <4>2, <4>3, <4>4, <4>5
      <4> QED  BY <4>6 DEF PointsMatchRows
    <3> QED  BY <3>1, <3>2
  <2> QED  BY <1>1, <1>3, <1>5, <2>2, <2>9, <2>10, WritesKeepBooks DEF Writing
<1> QED  BY <1>4, <1>5 DEF Credit

LEMMA BooksInitially == Init => BooksOK
<1> SUFFICES ASSUME Init PROVE BooksOK
  OBVIOUS
<1>1. TypeOK
  BY Initially DEF IInv
<1>2. ASSUME NEW f \in [Orders -> Int], \A o \in Orders : f[o] = 0 PROVE Total(f) = 0
  BY <1>2, FinitelyManyOrders, SumOfZeros DEF Total
<1>3. \A k \in Keys : Total(money[k]) = 0
  <2> SUFFICES ASSUME NEW k \in Keys PROVE Total(money[k]) = 0
    OBVIOUS
  <2>1. money[k] \in [Orders -> Int] /\ \A o \in Orders : money[k][o] = 0
    BY <1>1, RowsAreNumbers DEF Init
  <2> QED  BY <1>2, <2>1
<1>4. \A type \in {"EARN", "REDEEM"} : PointsIn(type) = 0
  <2> SUFFICES ASSUME NEW type \in {"EARN", "REDEEM"} PROVE PointsIn(type) = 0
    OBVIOUS
  <2>1. PointsOf(type) \in [Orders -> Int] /\ \A o \in Orders : PointsOf(type)[o] = 0
    BY <1>1, RowsAreNumbers DEF Init, PointsOf
  <2> QED  BY <1>2, <2>1 DEF PointsIn
<1>5. Total(taken) = 0
  <2>1. taken \in [Orders -> Int] /\ \A o \in Orders : taken[o] = 0
    BY <1>1, RowsAreNumbers DEF Init
  <2> QED  BY <1>2, <2>1
<1>6. PointsBack = 0
  BY <1>1, RowsAreNumbers, SumEmpty DEF Init, PointsBack
<1>7. MoneyMatchesRows
  <2>1. /\ Total(money["offer-cashback"]) = 0 /\ Total(money["refund-wallet"]) = 0
        /\ Total(money["claim-wallet"]) = 0 /\ Total(money["wallet-debit"]) = 0
    BY <1>3 DEF Keys
  <2>2. wallet = Opening /\ adjusted.balance = 0 /\ Opening.balance \in Int
    BY AmountAssumption DEF Init
  <2> QED  BY <2>1, <2>2 DEF MoneyMatchesRows
<1>8. PointsMatchRows
  <2>1. wallet = Opening /\ adjusted.points = 0 /\ Opening.points \in Int
    BY AmountAssumption DEF Init
  <2>2. PointsIn("EARN") = 0 /\ PointsIn("REDEEM") = 0
    BY <1>4
  <2> QED  BY <1>5, <1>6, <2>1, <2>2 DEF PointsMatchRows
<1>9. RewardsPlaced /\ OneHandler /\ SeenCurrent
  BY NoJobIsOK DEF Init, RewardsPlaced, OneHandler, SeenCurrent, Writing
<1> QED  BY <1>7, <1>8, <1>9 DEF BooksOK

LEMMA BooksKept == BooksInv /\ [Next]_vars => BooksOK'
<1> SUFFICES ASSUME BooksInv, [Next]_vars PROVE BooksOK'
  OBVIOUS
<1>1. ASSUME NEW a \in Actors, Step(a) PROVE BooksOK'
  BY <1>1, ReadStepsKeepBooks, PayingKeepsBooks, EarningKeepsBooks, CreditKeepsBooks,
     UnearnKeepsBooks, AdjustKeepsBooks, CrashKeepsBooks DEF Step
<1>2. CASE UNCHANGED vars
  BY <1>2 DEF vars, BooksInv, BooksOK, RewardsPlaced, OneHandler, SeenCurrent, Seen,
              MoneyMatchesRows, PointsMatchRows, PointsIn, PointsOf, PointsBack
<1> QED  BY <1>1, <1>2, BeginningKeepsBooks, CancelKeepsBooks DEF Next

(* As long as no handler overlaps another or dies, the wallet is what its  *)
(* rows add up to, in money and in points, for any amounts and any number  *)
(* of orders; overlapping or dying handlers are the only causes of drift.  *)
THEOREM WalletAlwaysMatchesRows == Spec => []WalletMatchesRows
<1>1. Init => BooksInv
  BY Initially, BooksInitially DEF BooksInv
<1>2. BooksInv /\ [Next]_vars => BooksInv'
  BY Inductive, BooksKept DEF BooksInv
<1>3. BooksInv => WalletMatchesRows
  BY DEF BooksInv, BooksOK, WalletMatchesRows
<1> QED  BY <1>1, <1>2, <1>3, PTL DEF Spec
=============================================================================
