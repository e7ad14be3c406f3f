-------------------------- MODULE SettlementProofs --------------------------
(***************************************************************************)
(* Theorems about Settlement, for any number of orders, payouts and        *)
(* handlers.  Three invariants, each resting on the one before:            *)
(*   - IInv: the types, and a handler's next step names rows that exist.   *)
(*     An entry and the record of its payout change in one transaction, so *)
(*     no order of steps can part them;                                    *)
(*   - LedgerInv: the sums that hold whatever overlaps or dies;            *)
(*   - BooksInv: those that hold as long as nothing does.  What the one    *)
(*     handler under way has read is then still so, and only the journal   *)
(*     it is about to post is missing.                                     *)
(***************************************************************************)
EXTENDS Settlement, SumLemmas, SequenceTheorems

JobOK(j) ==
    /\ j.at \in {"settle", "clawback"} => j.o \in Orders
    /\ j.at \in {"approve", "reject", "transfer", "complete", "record", "reverse", "unrecord"}
         => j.p \in Payouts
    /\ j.at = "create" => j.n \in Nat
    /\ j.at = "complete" => j.n \in 0..MaxTransfers

IInv == TypeOK /\ PaidEntriesHaveAPayout /\ \A a \in Actors : JobOK(job[a])

LEMMA NoJobIsOK == NoJob \in Job /\ JobOK(NoJob)
BY DEF NoJob, Job, JobOK, Steps, EntryStatus

LEMMA OnOrderIsOK ==
    ASSUME NEW o \in Orders, NEW n \in Int, NEW s \in {"settle", "clawback"}
    PROVE  OnOrder(s, o, n) \in Job /\ JobOK(OnOrder(s, o, n))
BY DEF OnOrder, NoJob, Job, JobOK, Steps, EntryStatus

LEMMA OnPayoutIsOK ==
    ASSUME NEW p \in Payouts, NEW n \in Int,
           NEW s \in {"approve", "reject", "transfer", "complete", "record", "reverse", "unrecord"},
           s = "complete" => n \in 0..MaxTransfers
    PROVE  OnPayout(s, p, n) \in Job /\ JobOK(OnPayout(s, p, n))
BY DEF OnPayout, NoJob, Job, JobOK, Steps, EntryStatus

(* What a step does to the handlers. *)
LEMMA JobsGoOn ==
    ASSUME IInv, NEW a \in Actors, NEW j \in Job, JobOK(j), Go(a, j) \/ Start(a, j)
    PROVE  /\ job' \in [Actors -> Job] /\ \A b \in Actors : JobOK(job[b])'
           /\ faults' \in 0..MaxFaults /\ calm' \in BOOLEAN
<1>1. job' = [job EXCEPT ![a] = j]
  BY DEF Go, Start
<1>2. job' \in [Actors -> Job] /\ \A b \in Actors : JobOK(job'[b])
  BY <1>1 DEF IInv, TypeOK
<1>3. faults \in 0..MaxFaults /\ calm \in BOOLEAN /\ MaxFaults \in Nat
  BY BoundAssumption DEF IInv, TypeOK
<1>4. faults' \in 0..MaxFaults /\ calm' \in BOOLEAN
  <2>0. \/ UNCHANGED <<faults, calm>>
        \/ faults < MaxFaults /\ faults' = faults + 1 /\ calm' = FALSE
    <3>1. CASE Go(a, j)
      BY <3>1 DEF Go
    <3>2. CASE Start(a, j)
      BY <3>2 DEF Start
    <3> QED  BY <3>1, <3>2
  <2>1. CASE UNCHANGED <<faults, calm>>
    BY <1>3, <2>1
  <2>2. CASE faults < MaxFaults /\ faults' = faults + 1 /\ calm' = FALSE
    <3>1. faults' \in 0..MaxFaults
      BY <1>3, <2>2
    <3>2. calm' \in BOOLEAN
      BY <2>2
    <3> QED  BY <3>1, <3>2
  <2> QED  BY <2>0, <2>1, <2>2
<1> QED  BY <1>2, <1>4

(* A handler that only reads. *)
LEMMA Reads ==
    ASSUME IInv, NEW a \in Actors, NEW j \in Job, JobOK(j), Go(a, j) \/ Start(a, j),
           UNCHANGED books
    PROVE  IInv'
<1>1. TypeOK'
  BY JobsGoOn DEF IInv, TypeOK, books
<1>2. PaidEntriesHaveAPayout'
  BY DEF IInv, PaidEntriesHaveAPayout, books
<1> QED  BY <1>1, <1>2, JobsGoOn DEF IInv

LEMMA Types ==
    ASSUME IInv
    PROVE  /\ entry \in [Orders -> Entry] /\ claim \in [Orders -> EntryStatus]
           /\ payout \in [Payouts -> Payout] /\ wallet \in Wallet
           /\ \A a \in Actors : job[a] \in Job /\ JobOK(job[a])
           /\ \A o \in Orders : /\ entry[o].status \in EntryStatus /\ entry[o].net \in Int
                                /\ entry[o].payout \in Payouts \cup {None}
           /\ \A p \in Payouts : payout[p].status \in PayoutStatus /\ payout[p].amount \in Nat
           /\ wallet.pending \in Int /\ wallet.available \in Int
           /\ wallet.earned \in Int /\ wallet.paidOut \in Int
<1>1. /\ entry \in [Orders -> Entry] /\ claim \in [Orders -> EntryStatus]
      /\ payout \in [Payouts -> Payout] /\ wallet \in Wallet
      /\ \A a \in Actors : job[a] \in Job /\ JobOK(job[a])
  BY DEF IInv, TypeOK
<1>2. \A o \in Orders : /\ entry[o].status \in EntryStatus /\ entry[o].net \in Int
                        /\ entry[o].payout \in Payouts \cup {None}
  BY <1>1 DEF Entry
<1>3. \A p \in Payouts : payout[p].status \in PayoutStatus /\ payout[p].amount \in Nat
  BY <1>1 DEF Payout
<1>4. /\ wallet.pending \in Int /\ wallet.available \in Int
      /\ wallet.earned \in Int /\ wallet.paidOut \in Int
  BY <1>1 DEF Wallet
<1> QED  BY <1>1, <1>2, <1>3, <1>4

LEMMA JobTypes ==
    ASSUME IInv, NEW a \in Actors
    PROVE  /\ job[a].n \in Int /\ job[a].seen \in EntryStatus
           /\ job[a].at \in {"settle", "clawback"} => job[a].o \in Orders
           /\ job[a].at \in {"approve", "reject", "transfer", "complete", "record", "reverse", "unrecord"}
                => job[a].p \in Payouts
           /\ job[a].at = "create" => job[a].n \in Nat
           /\ job[a].at = "complete" => job[a].n \in 0..MaxTransfers
BY Types DEF Job, JobOK

(* A step that leaves entries and records alone. *)
LEMMA EntriesStay ==
    ASSUME IInv, UNCHANGED <<entry, record>>
    PROVE  PaidEntriesHaveAPayout'
BY DEF IInv, PaidEntriesHaveAPayout

(* A step that changes one entry, and not whether it is paid. *)
LEMMA EntryChanges ==
    ASSUME IInv, NEW o \in Orders, NEW e \in Entry, entry' = [entry EXCEPT ![o] = e],
           UNCHANGED record, e.payout = entry[o].payout,
           e.status = "PAID_OUT" <=> entry[o].status = "PAID_OUT"
    PROVE  entry' \in [Orders -> Entry] /\ PaidEntriesHaveAPayout'
BY Types DEF IInv, PaidEntriesHaveAPayout

(* The changes of the wallet's balances. *)
LEMMA WalletSet ==
    ASSUME NEW w \in Wallet, NEW m \in Int, NEW n \in Int
    PROVE  /\ [w EXCEPT !.pending = m, !.available = n] \in Wallet
           /\ [w EXCEPT !.pending = m, !.earned = n] \in Wallet
           /\ [w EXCEPT !.available = m, !.earned = n] \in Wallet
           /\ [w EXCEPT !.available = m] \in Wallet
           /\ [w EXCEPT !.paidOut = m] \in Wallet
BY DEF Wallet

LEMMA WalletMoves ==
    ASSUME IInv, NEW n \in Int
    PROVE  /\ [wallet EXCEPT !.pending = @ - n, !.available = @ + n] \in Wallet
           /\ [wallet EXCEPT !.pending = @ + n, !.earned = @ + n] \in Wallet
           /\ [wallet EXCEPT !.pending = @ - n, !.earned = @ - n] \in Wallet
           /\ [wallet EXCEPT !.available = @ - n, !.earned = @ - n] \in Wallet
           /\ [wallet EXCEPT !.available = @ - n] \in Wallet
           /\ [wallet EXCEPT !.paidOut = @ - n] \in Wallet
           /\ [wallet EXCEPT !.paidOut = @ + n] \in Wallet
<1>1. wallet \in Wallet
  BY Types
<1>2. /\ wallet.pending - n \in Int /\ wallet.pending + n \in Int
      /\ wallet.available - n \in Int /\ wallet.available + n \in Int
      /\ wallet.earned - n \in Int /\ wallet.earned + n \in Int
      /\ wallet.paidOut - n \in Int /\ wallet.paidOut + n \in Int
  BY Types
<1>3. [wallet EXCEPT !.pending = @ - n, !.available = @ + n] \in Wallet
  BY <1>1, <1>2, WalletSet
<1>4. [wallet EXCEPT !.pending = @ + n, !.earned = @ + n] \in Wallet
  BY <1>1, <1>2, WalletSet
<1>5. [wallet EXCEPT !.pending = @ - n, !.earned = @ - n] \in Wallet
  BY <1>1, <1>2, WalletSet
<1>6. [wallet EXCEPT !.available = @ - n, !.earned = @ - n] \in Wallet
  BY <1>1, <1>2, WalletSet
<1>7. [wallet EXCEPT !.available = @ - n] \in Wallet
  BY <1>1, <1>2, WalletSet
<1>8. [wallet EXCEPT !.paidOut = @ - n] \in Wallet
  BY <1>1, <1>2, WalletSet
<1>9. [wallet EXCEPT !.paidOut = @ + n] \in Wallet
  BY <1>1, <1>2, WalletSet
<1> QED  BY <1>3, <1>4, <1>5, <1>6, <1>7, <1>8, <1>9

-----------------------------------------------------------------------------
(* Earning *)

LEMMA CreateLedgerPreserves ==
    ASSUME IInv, NEW o \in Orders, CreateLedger(o)
    PROVE  IInv'
<1> DEFINE e == [status |-> "PENDING", net |-> Net[o], payout |-> None]
<1>1. e \in Entry /\ Net[o] \in Int
  BY AmountAssumption DEF Entry, EntryStatus
<1>2. entry[o].payout = None
  BY DEF CreateLedger, IInv, PaidEntriesHaveAPayout
<1>3. entry' \in [Orders -> Entry] /\ PaidEntriesHaveAPayout'
  BY <1>1, <1>2, EntryChanges DEF CreateLedger
<1>4. wallet' \in Wallet
  BY <1>1, WalletMoves DEF CreateLedger
<1>5. TypeOK' /\ \A a \in Actors : JobOK(job[a])'
  BY <1>3, <1>4 DEF CreateLedger, IInv, TypeOK
<1> QED  BY <1>3, <1>5 DEF IInv

LEMMA SettlePreserves ==
    ASSUME IInv, NEW a \in Actors, Settle(a)
    PROVE  IInv'
<1>1. job[a].o \in Orders /\ job[a].n \in Int
  BY JobTypes DEF Settle
<1>2. entry' \in [Orders -> Entry] /\ wallet' \in Wallet /\ PaidEntriesHaveAPayout'
  <2>1. CASE entry[job[a].o].status = "PENDING"
    <3> DEFINE e == [entry[job[a].o] EXCEPT !.status = "SETTLED"]
    <3>1. e \in Entry /\ e.payout = entry[job[a].o].payout /\ e.status = "SETTLED"
      BY <1>1, Types DEF Entry, EntryStatus
    <3>2. entry' = [entry EXCEPT ![job[a].o] = e] /\ UNCHANGED record
      BY <2>1 DEF Settle
    <3>3. wallet' \in Wallet
      BY <1>1, <2>1, WalletMoves DEF Settle
    <3> HIDE DEF e
    <3> QED  BY <1>1, <2>1, <3>1, <3>2, <3>3, EntryChanges
  <2>2. CASE entry[job[a].o].status # "PENDING"
    BY <2>2, EntriesStay, Types DEF Settle
  <2> QED  BY <2>1, <2>2
<1>3. Go(a, NoJob) /\ UNCHANGED <<claim, payout, record, success, journal, transfer>>
  BY DEF Settle, End
<1>4. TypeOK' /\ \A b \in Actors : JobOK(job[b])'
  BY <1>2, <1>3, NoJobIsOK, JobsGoOn DEF IInv, TypeOK
<1> QED  BY <1>2, <1>4 DEF IInv

LEMMA ClawbackPreserves ==
    ASSUME IInv, NEW a \in Actors, Clawback(a)
    PROVE  IInv'
<1>1. job[a].o \in Orders /\ job[a].n \in Int
  BY JobTypes DEF Clawback
<1> DEFINE e == [entry[job[a].o] EXCEPT !.net = @ - job[a].n]
<1>2. /\ e \in Entry /\ e.payout = entry[job[a].o].payout
      /\ e.status = entry[job[a].o].status
  BY <1>1, Types DEF Entry
<1>3. entry' = [entry EXCEPT ![job[a].o] = e] /\ UNCHANGED record
  BY DEF Clawback
<1>4. wallet' \in Wallet
  BY <1>1, WalletMoves DEF Clawback
<1> HIDE DEF e
<1>5. entry' \in [Orders -> Entry] /\ PaidEntriesHaveAPayout'
  BY <1>1, <1>2, <1>3, EntryChanges
<1>6. Go(a, NoJob) /\ UNCHANGED <<claim, payout, record, success, journal, transfer>>
  BY DEF Clawback, End
<1>7. TypeOK' /\ \A b \in Actors : JobOK(job[b])'
  BY <1>4, <1>5, <1>6, NoJobIsOK, JobsGoOn DEF IInv, TypeOK
<1> QED  BY <1>5, <1>7 DEF IInv

LEMMA RefundClaimPreserves ==
    ASSUME IInv, NEW a \in Actors, NEW o \in Orders, RefundClaim(a, o)
    PROVE  IInv'
<1> DEFINE j == [OnOrder("clawback", o, Share[o]) EXCEPT !.seen = entry[o].status]
<1>1. j \in Job /\ JobOK(j)
  <2>1. Share[o] \in Int /\ entry[o].status \in EntryStatus
    BY AmountAssumption, Types
  <2> QED  BY <2>1 DEF OnOrder, NoJob, Job, JobOK, Steps
<1>2. Start(a, j)
  BY DEF RefundClaim
<1> HIDE DEF j
<1>3. claim' \in [Orders -> EntryStatus]
  BY Types DEF RefundClaim
<1>4. UNCHANGED <<entry, wallet, payout, record, success, journal, transfer>>
  BY DEF RefundClaim
<1>5. TypeOK' /\ \A b \in Actors : JobOK(job[b])'
  BY <1>1, <1>2, <1>3, <1>4, JobsGoOn DEF IInv, TypeOK
<1> QED  BY <1>4, <1>5, EntriesStay DEF IInv

-----------------------------------------------------------------------------
(* Payouts *)

LEMMA RequestPayoutPreserves ==
    ASSUME IInv, NEW a \in Actors, NEW n \in Amounts, RequestPayout(a, n)
    PROVE  IInv'
<1> DEFINE j == OnPayout("create", None, n)
<1>1. n \in Nat
  BY AmountAssumption
<1>2. j \in Job /\ JobOK(j)
  <2>1. j = [at |-> "create", o |-> None, p |-> None, n |-> n, seen |-> "NONE"]
    <3>1. NoJob = [at |-> "idle", o |-> None, p |-> None, n |-> 0, seen |-> "NONE"]
      BY DEF NoJob
    <3>2. j = [NoJob EXCEPT !.at = "create", !.p = None, !.n = n]
      BY DEF OnPayout
    <3> HIDE DEF j
    <3> QED  BY <3>1, <3>2
  <2>2. j.at = "create" /\ j.n = n
    BY <2>1
  <2>3. n \in Int
    BY <1>1
  <2>4. j \in Job
    BY <2>1, <2>3 DEF Job, Steps, EntryStatus
  <2>5. JobOK(j)
    BY <1>1, <2>2 DEF JobOK
  <2> QED  BY <2>4, <2>5
<1>3. Start(a, j) /\ UNCHANGED books
  BY DEF RequestPayout
<1> HIDE DEF j
<1> QED  BY <1>2, <1>3, Reads

LEMMA CreatePayoutRequestPreserves ==
    ASSUME IInv, NEW a \in Actors, CreatePayoutRequest(a)
    PROVE  IInv'
<1>1. job[a].n \in Nat
  BY JobTypes DEF CreatePayoutRequest
<1>2. PICK p \in Payouts :
        payout' = [payout EXCEPT ![p] = [status |-> "PENDING", amount |-> job[a].n]]
  BY DEF CreatePayoutRequest
<1>3. [status |-> "PENDING", amount |-> job[a].n] \in Payout
  BY <1>1 DEF Payout, PayoutStatus
<1>4. payout' \in [Payouts -> Payout]
  BY <1>2, <1>3, Types
<1>5. Go(a, NoJob) /\ UNCHANGED <<entry, claim, wallet, record, success, journal, transfer>>
  BY DEF CreatePayoutRequest, End
<1>6. TypeOK' /\ \A b \in Actors : JobOK(job[b])'
  BY <1>4, <1>5, NoJobIsOK, JobsGoOn DEF IInv, TypeOK
<1> QED  BY <1>5, <1>6, EntriesStay DEF IInv

(* CheckApproval, CheckRejection, Preflight and OnTransferFailed. *)
LEMMA PayoutReadsPreserve ==
    ASSUME IInv, NEW a \in Actors, NEW p \in Payouts, NEW n \in Int,
           NEW s \in {"approve", "reject", "transfer", "complete", "reverse"},
           s = "complete" => n = 0,
           Start(a, OnPayout(s, p, n)), UNCHANGED books
    PROVE  IInv'
<1>1. s = "complete" => n \in 0..MaxTransfers
  BY BoundAssumption
<1>2. OnPayout(s, p, n) \in Job /\ JobOK(OnPayout(s, p, n))
  BY <1>1, OnPayoutIsOK
<1> QED  BY <1>2, Reads

(* A step that changes the status of one payout and ends its handler. *)
LEMMA PayoutStatusChanges ==
    ASSUME IInv, NEW p \in Payouts, NEW s \in PayoutStatus
    PROVE  [payout EXCEPT ![p].status = s] \in [Payouts -> Payout]
<1>1. [payout[p] EXCEPT !.status = s] \in Payout
  BY Types DEF Payout
<1> QED  BY <1>1, Types

LEMMA ApprovePayoutRequestPreserves ==
    ASSUME IInv, NEW a \in Actors, ApprovePayoutRequest(a)
    PROVE  IInv'
<1>1. job[a].p \in Payouts /\ job[a].n \in Int
  BY JobTypes DEF ApprovePayoutRequest
<1>2. payout' \in [Payouts -> Payout]
  BY <1>1, PayoutStatusChanges DEF ApprovePayoutRequest, PayoutStatus
<1>3. wallet' \in Wallet
  BY <1>1, WalletMoves DEF ApprovePayoutRequest
<1>4. Go(a, NoJob) /\ UNCHANGED <<entry, claim, record, success, journal, transfer>>
  BY DEF ApprovePayoutRequest, End
<1>5. TypeOK' /\ \A b \in Actors : JobOK(job[b])'
  BY <1>2, <1>3, <1>4, NoJobIsOK, JobsGoOn DEF IInv, TypeOK
<1> QED  BY <1>4, <1>5, EntriesStay DEF IInv

LEMMA RejectPayoutRequestPreserves ==
    ASSUME IInv, NEW a \in Actors, RejectPayoutRequest(a)
    PROVE  IInv'
<1>1. job[a].p \in Payouts
  BY JobTypes DEF RejectPayoutRequest
<1>2. payout' \in [Payouts -> Payout]
  BY <1>1, PayoutStatusChanges DEF RejectPayoutRequest, PayoutStatus
<1>3. Go(a, NoJob) /\ UNCHANGED <<entry, claim, wallet, record, success, journal, transfer>>
  BY DEF RejectPayoutRequest, End
<1>4. TypeOK' /\ \A b \in Actors : JobOK(job[b])'
  BY <1>2, <1>3, NoJobIsOK, JobsGoOn DEF IInv, TypeOK
<1> QED  BY <1>3, <1>4, EntriesStay DEF IInv

LEMMA CreateTransferPreserves ==
    ASSUME IInv, NEW a \in Actors, CreateTransfer(a)
    PROVE  IInv'
<1> DEFINE p == job[a].p
           sent == Append(transfer[p], "sent")
           j == OnPayout("complete", p, Len(transfer[p]) + 1)
<1>1. p \in Payouts
  BY JobTypes DEF CreateTransfer
<1>2. transfer \in [Payouts -> Seq({"sent", "failed"})]
  BY DEF IInv, TypeOK
<1>3. transfer[p] \in Seq({"sent", "failed"})
  BY <1>1, <1>2
<1>4. UNCHANGED <<entry, claim, wallet, payout, record, success, journal>>
  BY DEF CreateTransfer
<1>5. CASE /\ Len(transfer[p]) < MaxTransfers
           /\ transfer' = [transfer EXCEPT ![p] = sent]
           /\ Go(a, j)
  <2>1. sent \in Seq({"sent", "failed"})
    BY <1>3
  <2>2. Len(transfer[p]) \in Nat
    BY <1>3, LenProperties
  <2>3. Len(transfer[p]) + 1 \in 0..MaxTransfers
    BY <1>5, <2>2, BoundAssumption
  <2>4. j \in Job /\ JobOK(j)
    BY <1>1, <2>3, OnPayoutIsOK
  <2> HIDE DEF sent, j
  <2>5. transfer' \in [Payouts -> Seq({"sent", "failed"})]
    BY <1>2, <1>5, <2>1
  <2>6. TypeOK' /\ \A b \in Actors : JobOK(job[b])'
    BY <1>4, <1>5, <2>4, <2>5, JobsGoOn DEF IInv, TypeOK
  <2> QED  BY <1>4, <2>6, EntriesStay DEF IInv
<1>6. CASE UNCHANGED transfer /\ Go(a, NoJob)
  <2>1. UNCHANGED books
    BY <1>4, <1>6 DEF books
  <2> QED  BY <1>6, <2>1, NoJobIsOK, Reads
<1> QED  BY <1>5, <1>6 DEF CreateTransfer, End

LEMMA CompletePayoutPreserves ==
    ASSUME IInv, NEW a \in Actors, CompletePayout(a)
    PROVE  IInv'
<1> DEFINE p == job[a].p
           j == OnPayout("record", p, 0)
<1>1. p \in Payouts /\ job[a].n \in 0..MaxTransfers
  BY JobTypes DEF CompletePayout
<1>2. UNCHANGED <<claim, journal, transfer>>
  BY DEF CompletePayout
<1>3. CASE payout[p].status = "APPROVED" /\ record[p] = "NONE"
  <2>1. /\ payout' = [payout EXCEPT ![p].status = "COMPLETED"]
        /\ success' = [success EXCEPT ![p] = @ \cup {job[a].n}]
        /\ wallet' = [wallet EXCEPT !.paidOut = @ + payout[p].amount]
        /\ record' = [record EXCEPT ![p] = "COMPLETED"]
        /\ Go(a, j)
    BY <1>3 DEF CompletePayout
  <2>2. PICK E \in Earmarks(payout[p].amount) :
          entry' = [o \in Orders |->
              IF o \in E THEN [entry[o] EXCEPT !.status = "PAID_OUT", !.payout = p]
                         ELSE entry[o]]
    BY <1>3 DEF CompletePayout
  <2>3. payout' \in [Payouts -> Payout]
    BY <1>1, <2>1, PayoutStatusChanges DEF PayoutStatus
  <2>4. success' \in [Payouts -> SUBSET (0..MaxTransfers)]
    BY <1>1, <2>1 DEF IInv, TypeOK
  <2>5. wallet' \in Wallet
    <3>1. payout[p].amount \in Int
      BY <1>1, Types
    <3> QED  BY <2>1, <3>1, WalletMoves
  <2>6. record' \in [Payouts -> {"NONE", "COMPLETED", "FAILED"}]
    BY <1>1, <2>1 DEF IInv, TypeOK
  <2>7. \A o \in Orders : [entry[o] EXCEPT !.status = "PAID_OUT", !.payout = p] \in Entry
    BY <1>1, Types DEF Entry, EntryStatus
  <2>8. entry' \in [Orders -> Entry]
    BY <2>2, <2>7, Types
  <2>9. j \in Job /\ JobOK(j)
    BY <1>1, OnPayoutIsOK
  <2>10. PaidEntriesHaveAPayout'
    <3> SUFFICES ASSUME NEW o \in Orders
                 PROVE  /\ entry'[o].status = "PAID_OUT" <=> entry'[o].payout # None
                        /\ entry'[o].payout # None => record'[entry'[o].payout] = "COMPLETED"
      BY DEF PaidEntriesHaveAPayout
    <3>1. record \in [Payouts -> {"NONE", "COMPLETED", "FAILED"}]
      BY DEF IInv, TypeOK
    <3>2. /\ entry[o].status = "PAID_OUT" <=> entry[o].payout # None
          /\ entry[o].payout # None => record[entry[o].payout] = "COMPLETED"
      BY DEF IInv, PaidEntriesHaveAPayout
    <3>3. CASE o \in E
      <4>1. entry'[o] = [entry[o] EXCEPT !.status = "PAID_OUT", !.payout = p]
        BY <2>2, <3>3
      <4>2. entry'[o].status = "PAID_OUT" /\ entry'[o].payout = p
        BY <4>1, Types DEF Entry
      <4> QED  BY <1>1, <2>1, <3>1, <4>2, NoneAssumption
    <3>4. CASE o \notin E
      <4>1. entry'[o] = entry[o]
        BY <2>2, <3>4
      <4>2. entry[o].payout \in Payouts \cup {None}
        BY Types
      <4>3. CASE entry[o].payout = None
        BY <3>2, <4>1, <4>3
      <4>4. CASE entry[o].payout \in Payouts
        BY <1>1, <2>1, <3>1, <3>2, <4>1, <4>4
      <4> QED  BY <4>2, <4>3, <4>4
    <3> QED  BY <3>3, <3>4
  <2> HIDE DEF j
  <2>11. TypeOK' /\ \A b \in Actors : JobOK(job[b])'
    BY <1>2, <2>1, <2>3, <2>4, <2>5, <2>6, <2>8, <2>9, JobsGoOn DEF IInv, TypeOK
  <2> QED  BY <2>10, <2>11 DEF IInv
<1>4. CASE ~(payout[p].status = "APPROVED" /\ record[p] = "NONE")
  <2>1. Go(a, NoJob) /\ UNCHANGED books
    BY <1>2, <1>4 DEF CompletePayout, End, books
  <2> QED  BY <2>1, NoJobIsOK, Reads
<1> QED  BY <1>3, <1>4

LEMMA PostJournalPreserves ==
    ASSUME IInv, NEW a \in Actors, PostJournal(a)
    PROVE  IInv'
<1>1. journal' \in [Payouts -> SUBSET {"payout", "reversal"}]
  <2>1. journal \in [Payouts -> SUBSET {"payout", "reversal"}]
    BY DEF IInv, TypeOK
  <2>2. CASE journal' = [journal EXCEPT ![job[a].p] = @ \cup {"payout"}]
    BY <2>1, <2>2
  <2>3. CASE journal' = [journal EXCEPT ![job[a].p] = @ \cup {"reversal"}]
    BY <2>1, <2>3
  <2> QED  BY <2>2, <2>3 DEF PostJournal
<1>2. Go(a, NoJob) /\ UNCHANGED <<entry, claim, wallet, payout, record, success, transfer>>
  BY DEF PostJournal, End
<1>3. TypeOK' /\ \A b \in Actors : JobOK(job[b])'
  BY <1>1, <1>2, NoJobIsOK, JobsGoOn DEF IInv, TypeOK
<1> QED  BY <1>2, <1>3, EntriesStay DEF IInv

LEMMA TransferFailsPreserves ==
    ASSUME IInv, NEW p \in Payouts, NEW i \in 1..Len(transfer[p]), TransferFails(p, i)
    PROVE  IInv'
<1>1. transfer \in [Payouts -> Seq({"sent", "failed"})]
  BY DEF IInv, TypeOK
<1>2. [transfer[p] EXCEPT ![i] = "failed"] \in Seq({"sent", "failed"})
  BY <1>1, ExceptSeq
<1>3. transfer' \in [Payouts -> Seq({"sent", "failed"})]
  BY <1>1, <1>2 DEF TransferFails
<1>4. UNCHANGED <<entry, claim, wallet, payout, record, success, journal, job, faults, calm>>
  BY DEF TransferFails
<1>5. TypeOK' /\ \A b \in Actors : JobOK(job[b])'
  BY <1>3, <1>4 DEF IInv, TypeOK
<1> QED  BY <1>4, <1>5, EntriesStay DEF IInv

LEMMA ReversePayoutPreserves ==
    ASSUME IInv, NEW a \in Actors, ReversePayout(a)
    PROVE  IInv'
<1> DEFINE p == job[a].p
           j == OnPayout("unrecord", p, 0)
<1>1. p \in Payouts
  BY JobTypes DEF ReversePayout
<1>2. /\ UNCHANGED <<claim, journal, transfer>>
      /\ success' = [success EXCEPT ![p] = @ \ {job[a].n}]
      /\ payout' = [payout EXCEPT ![p].status = "APPROVED"]
      /\ record' = [record EXCEPT ![p] = "FAILED"]
      /\ wallet' = [wallet EXCEPT !.paidOut = @ - payout[p].amount]
      /\ entry' = [o \in Orders |->
             IF entry[o].payout = p THEN [entry[o] EXCEPT !.status = "SETTLED", !.payout = None]
                                    ELSE entry[o]]
      /\ Go(a, j)
  BY DEF ReversePayout
<1>3. payout' \in [Payouts -> Payout]
  BY <1>1, <1>2, PayoutStatusChanges DEF PayoutStatus
<1>4. success' \in [Payouts -> SUBSET (0..MaxTransfers)]
  BY <1>1, <1>2 DEF IInv, TypeOK
<1>5. wallet' \in Wallet
  <2>1. payout[p].amount \in Int
    BY <1>1, Types
  <2> QED  BY <1>2, <2>1, WalletMoves
<1>6. record' \in [Payouts -> {"NONE", "COMPLETED", "FAILED"}]
  BY <1>1, <1>2 DEF IInv, TypeOK
<1>7. \A o \in Orders : [entry[o] EXCEPT !.status = "SETTLED", !.payout = None] \in Entry
  BY Types DEF Entry, EntryStatus
<1>8. entry' \in [Orders -> Entry]
  BY <1>2, <1>7, Types
<1>9. PaidEntriesHaveAPayout'
  <2> SUFFICES ASSUME NEW o \in Orders
               PROVE  /\ entry'[o].status = "PAID_OUT" <=> entry'[o].payout # None
                      /\ entry'[o].payout # None => record'[entry'[o].payout] = "COMPLETED"
    BY DEF PaidEntriesHaveAPayout
  <2>1. record \in [Payouts -> {"NONE", "COMPLETED", "FAILED"}]
    BY DEF IInv, TypeOK
  <2>2. /\ entry[o].status = "PAID_OUT" <=> entry[o].payout # None
        /\ entry[o].payout # None => record[entry[o].payout] = "COMPLETED"
    BY DEF IInv, PaidEntriesHaveAPayout
  <2>3. CASE entry[o].payout = p
    <3>1. entry'[o] = [entry[o] EXCEPT !.status = "SETTLED", !.payout = None]
      BY <1>2, <2>3
    <3>2. entry'[o].status = "SETTLED" /\ entry'[o].payout = None
      BY <3>1, Types DEF Entry
    <3> QED  BY <3>2
  <2>4. CASE entry[o].payout # p
    <3>1. entry'[o] = entry[o]
      BY <1>2, <2>4
    <3>2. entry[o].payout \in Payouts \cup {None}
      BY Types
    <3> QED  BY <1>2, <2>1, <2>2, <2>4, <3>1, <3>2
  <2> QED  BY <2>3, <2>4
<1>10. j \in Job /\ JobOK(j)
  BY <1>1, OnPayoutIsOK
<1> HIDE DEF j
<1>11. TypeOK' /\ \A b \in Actors : JobOK(job[b])'
  BY <1>2, <1>3, <1>4, <1>5, <1>6, <1>8, <1>10, JobsGoOn DEF IInv, TypeOK
<1> QED  BY <1>9, <1>11 DEF IInv

LEMMA CrashPreserves ==
    ASSUME IInv, NEW a \in Actors, Crash(a)
    PROVE  IInv'
<1>1. UNCHANGED books
  BY DEF Crash
<1>2. job' \in [Actors -> Job] /\ \A b \in Actors : JobOK(job'[b])
  BY NoJobIsOK DEF Crash, IInv, TypeOK
<1>3. faults' \in 0..MaxFaults
  BY BoundAssumption DEF Crash, IInv, TypeOK
<1>4. calm' \in BOOLEAN
  BY DEF Crash
<1>5. TypeOK' /\ \A b \in Actors : JobOK(job[b])'
  BY <1>1, <1>2, <1>3, <1>4 DEF IInv, TypeOK, books
<1>6. UNCHANGED <<entry, record>>
  BY <1>1 DEF books
<1> QED  BY <1>5, <1>6, EntriesStay DEF IInv

-----------------------------------------------------------------------------
LEMMA Initially == Init => IInv
<1> SUFFICES ASSUME Init PROVE IInv
  OBVIOUS
<1>1. [status |-> "NONE", net |-> 0, payout |-> None] \in Entry
  BY DEF Entry, EntryStatus
<1>2. [pending |-> 0, available |-> 0, earned |-> 0, paidOut |-> 0] \in Wallet
  BY DEF Wallet
<1>3. [status |-> "NONE", amount |-> 0] \in Payout
  BY DEF Payout, PayoutStatus
<1>4. entry \in [Orders -> Entry] /\ wallet \in Wallet /\ payout \in [Payouts -> Payout]
  BY <1>1, <1>2, <1>3 DEF Init
<1>5. job \in [Actors -> Job] /\ \A a \in Actors : JobOK(job[a])
  BY NoJobIsOK DEF Init
<1>6. transfer \in [Payouts -> Seq({"sent", "failed"})]
  BY EmptySeq DEF Init
<1>7. faults \in 0..MaxFaults
  BY BoundAssumption DEF Init
<1>8. TypeOK
  BY <1>4, <1>5, <1>6, <1>7 DEF Init, TypeOK, EntryStatus
<1>9. PaidEntriesHaveAPayout
  BY DEF Init, PaidEntriesHaveAPayout
<1> QED  BY <1>5, <1>8, <1>9 DEF IInv

LEMMA StepPreserves ==
    ASSUME IInv, NEW a \in Actors, Step(a)
    PROVE  IInv'
<1>1. CASE Settle(a)               BY <1>1, SettlePreserves
<1>2. CASE Clawback(a)             BY <1>2, ClawbackPreserves
<1>3. CASE CreatePayoutRequest(a)  BY <1>3, CreatePayoutRequestPreserves
<1>4. CASE ApprovePayoutRequest(a) BY <1>4, ApprovePayoutRequestPreserves
<1>5. CASE RejectPayoutRequest(a)  BY <1>5, RejectPayoutRequestPreserves
<1>6. CASE CreateTransfer(a)       BY <1>6, CreateTransferPreserves
<1>7. CASE CompletePayout(a)       BY <1>7, CompletePayoutPreserves
<1>8. CASE PostJournal(a)          BY <1>8, PostJournalPreserves
<1>9. CASE ReversePayout(a)        BY <1>9, ReversePayoutPreserves
<1>10. CASE Crash(a)               BY <1>10, CrashPreserves
<1> QED
  BY <1>1, <1>2, <1>3, <1>4, <1>5, <1>6, <1>7, <1>8, <1>9, <1>10 DEF Step

LEMMA BeginPreserves ==
    ASSUME IInv, NEW a \in Actors, Begin(a)
    PROVE  IInv'
<1>1. CASE \E o \in Orders : FindEligible(a, o)
  <2> PICK o \in Orders : FindEligible(a, o)
    BY <1>1
  <2>1. OnOrder("settle", o, entry[o].net) \in Job /\ JobOK(OnOrder("settle", o, entry[o].net))
    BY Types, OnOrderIsOK
  <2> QED  BY <2>1, Reads DEF FindEligible
<1>2. CASE \E o \in Orders : RefundClaim(a, o)
  BY <1>2, RefundClaimPreserves
<1>3. CASE \E n \in Amounts : RequestPayout(a, n)
  BY <1>3, RequestPayoutPreserves
<1>4. CASE \E p \in Payouts : CheckApproval(a, p) \/ CheckRejection(a, p) \/ Preflight(a, p)
  <2> PICK p \in Payouts : CheckApproval(a, p) \/ CheckRejection(a, p) \/ Preflight(a, p)
    BY <1>4
  <2>1. CASE CheckApproval(a, p)
    BY <2>1, Types, PayoutReadsPreserve DEF CheckApproval
  <2>2. CASE CheckRejection(a, p)
    BY <2>2, PayoutReadsPreserve DEF CheckRejection
  <2>3. CASE Preflight(a, p)
    BY <2>3, PayoutReadsPreserve DEF Preflight
  <2> QED  BY <2>1, <2>2, <2>3
<1>5. CASE \E p \in Payouts : \E i \in 1..Len(transfer[p]) : OnTransferFailed(a, p, i)
  <2> PICK p \in Payouts : \E i \in 1..Len(transfer[p]) : OnTransferFailed(a, p, i)
    BY <1>5
  <2> PICK i \in 1..Len(transfer[p]) : OnTransferFailed(a, p, i)
    OBVIOUS
  <2>1. i \in Int
    OBVIOUS
  <2> QED  BY <2>1, PayoutReadsPreserve DEF OnTransferFailed
<1> QED  BY <1>1, <1>2, <1>3, <1>4, <1>5 DEF Begin

LEMMA Inductive == IInv /\ [Next]_vars => IInv'
<1> SUFFICES ASSUME IInv, [Next]_vars PROVE IInv'
  OBVIOUS
<1>1. CASE UNCHANGED vars
  BY <1>1 DEF vars, IInv, TypeOK, PaidEntriesHaveAPayout
<1>2. CASE \E a \in Actors : Step(a) \/ Begin(a)
  BY <1>2, StepPreserves, BeginPreserves
<1>3. CASE \E o \in Orders : CreateLedger(o)
  BY <1>3, CreateLedgerPreserves
<1>4. CASE \E p \in Payouts : \E i \in 1..Len(transfer[p]) : TransferFails(p, i)
  BY <1>4, TransferFailsPreserves
<1> QED  BY <1>1, <1>2, <1>3, <1>4 DEF Next

LEMMA Invariant == Spec => []IInv
BY Initially, Inductive, PTL DEF Spec

(* Every row keeps the values of its columns, and no handler names a row   *)
(* of another table, whatever overlaps or dies (settlement.service.ts).    *)
THEOREM TypeCorrect == Spec => []TypeOK
<1>1. IInv => TypeOK
  BY DEF IInv
<1> QED  BY <1>1, Invariant, PTL

(* For any number of orders, payouts and overlapping handlers, an entry is *)
(* PAID_OUT exactly while it names a payout, and that payout's record is   *)
(* COMPLETED: processPayoutRequest and onTransferFailed keep them together. *)
THEOREM PaidEntriesAlwaysHaveAPayout == Spec => []PaidEntriesHaveAPayout
<1>1. IInv => PaidEntriesHaveAPayout
  BY DEF IInv
<1> QED  BY <1>1, Invariant, PTL

-----------------------------------------------------------------------------
(* On what a payout rests.  A record that is COMPLETED has one SUCCESS     *)
(* transaction, any other none; the reference a handler is about to book   *)
(* is that of a transfer that was made, and a reversal that is under way   *)
(* will leave no SUCCESS transaction, whether it is the first or not: its  *)
(* payout has a record, so that none is booked meanwhile.                  *)

JobBacked(j) ==
    /\ j.at = "complete" => j.n \in 0..Len(transfer[j.p])
    /\ j.at = "reverse" => record[j.p] # "NONE" /\ success[j.p] \subseteq {j.n}

Backed(p) ==
    /\ record[p] = "COMPLETED" => \E i \in 0..Len(transfer[p]) : success[p] = {i}
    /\ record[p] # "COMPLETED" => success[p] = {}

BackedInv == (\A p \in Payouts : Backed(p)) /\ \A a \in Actors : JobBacked(job[a])

LEMMA LenIsNat == ASSUME IInv, NEW p \in Payouts PROVE Len(transfer[p]) \in Nat
<1>1. transfer[p] \in Seq({"sent", "failed"})
  BY DEF IInv, TypeOK
<1> QED  BY <1>1, LenProperties

(* A handler goes on to a step that books and reverses nothing. *)
LEMMA BackingStays ==
    ASSUME IInv, BackedInv, NEW a \in Actors, NEW j, JobBacked(j),
           job' = [job EXCEPT ![a] = j], UNCHANGED <<record, success, transfer>>
    PROVE  BackedInv'
<1>1. \A b \in Actors : job'[b] = IF b = a THEN j ELSE job[b]
  BY DEF IInv, TypeOK
<1> QED  BY <1>1 DEF BackedInv, Backed, JobBacked

LEMMA PlainJobs ==
    /\ JobBacked(NoJob)
    /\ \A o \in Orders, n \in Int, s \in {"settle", "clawback"} :
          JobBacked(OnOrder(s, o, n))
    /\ \A p \in Payouts \cup {None}, n \in Int,
          s \in {"create", "approve", "reject", "transfer", "record", "unrecord"} :
          JobBacked(OnPayout(s, p, n))
BY DEF NoJob, OnOrder, OnPayout, JobBacked

LEMMA StepBacked ==
    ASSUME IInv, IInv', BackedInv, NEW a \in Actors, Step(a)
    PROVE  BackedInv'
<1>1. CASE \/ Settle(a) \/ Clawback(a) \/ CreatePayoutRequest(a) \/ ApprovePayoutRequest(a)
           \/ RejectPayoutRequest(a) \/ PostJournal(a) \/ Crash(a)
  <2>1. job' = [job EXCEPT ![a] = NoJob] /\ UNCHANGED <<record, success, transfer>>
    BY <1>1 DEF Settle, Clawback, CreatePayoutRequest, ApprovePayoutRequest,
                RejectPayoutRequest, PostJournal, Crash, End, Go, books
  <2> QED  BY <2>1, PlainJobs, BackingStays
<1>2. CASE CreateTransfer(a)
  <2> DEFINE p == job[a].p
             j == OnPayout("complete", p, Len(transfer[p]) + 1)
  <2>1. p \in Payouts /\ UNCHANGED <<record, success>>
    BY <1>2, JobTypes DEF CreateTransfer
  <2>2. CASE transfer' = [transfer EXCEPT ![p] = Append(@, "sent")] /\ Go(a, j)
    <3>1. transfer \in [Payouts -> Seq({"sent", "failed"})]
      BY DEF IInv, TypeOK
    <3>2. Len(Append(transfer[p], "sent")) = Len(transfer[p]) + 1
      BY <2>1, <3>1, AppendProperties
    <3>3. \A q \in Payouts : Len(transfer'[q]) =
                             IF q = p THEN Len(transfer[q]) + 1 ELSE Len(transfer[q])
      BY <2>1, <2>2, <3>1, <3>2
    <3>4. \A q \in Payouts : \A i \in 0..Len(transfer[q]) : i \in 0..Len(transfer'[q])
      BY <3>3, LenIsNat
    <3>5. \A q \in Payouts : Backed(q)'
      BY <2>1, <3>4 DEF BackedInv, Backed
    <3>6. Len(transfer'[p]) = Len(transfer[p]) + 1 /\ Len(transfer[p]) \in Nat
      BY <2>1, <3>3, LenIsNat
    <3>7. j.at = "complete" /\ j.p = p /\ j.n = Len(transfer[p]) + 1
      BY DEF OnPayout, NoJob
    <3>8. JobBacked(job[a])'
      <4>1. job'[a] = j
        BY <2>2 DEF Go, IInv, TypeOK
      <4> QED  BY <3>6, <3>7, <4>1 DEF JobBacked
    <3>9. ASSUME NEW b \in Actors, b # a PROVE JobBacked(job[b])'
      <4>1. job'[b] = job[b]
        BY <2>2, <3>9 DEF Go, IInv, TypeOK
      <4>2. job[b].at = "complete" => job[b].p \in Payouts
        BY DEF IInv, JobOK
      <4> QED  BY <2>1, <3>4, <4>1, <4>2 DEF BackedInv, JobBacked
    <3> QED  BY <3>5, <3>8, <3>9 DEF BackedInv, JobBacked
  <2>3. CASE UNCHANGED transfer /\ End(a)
    BY <2>1, <2>3, PlainJobs, BackingStays DEF End, Go
  <2> QED  BY <1>2, <2>2, <2>3 DEF CreateTransfer
<1>3. CASE CompletePayout(a)
  <2> DEFINE p == job[a].p
             n == job[a].n
  <2>1. p \in Payouts /\ UNCHANGED transfer /\ n \in 0..Len(transfer[p])
    BY <1>3, JobTypes DEF CompletePayout, BackedInv, JobBacked
  <2>2. CASE payout[p].status = "APPROVED" /\ record[p] = "NONE"
    <3>1. /\ success' = [success EXCEPT ![p] = @ \cup {n}]
          /\ record' = [record EXCEPT ![p] = "COMPLETED"]
          /\ Go(a, OnPayout("record", p, 0))
      BY <1>3, <2>2 DEF CompletePayout
    <3>2. success[p] = {}
      BY <2>1, <2>2 DEF BackedInv, Backed
    <3>3. \A q \in Payouts : /\ record'[q] = IF q = p THEN "COMPLETED" ELSE record[q]
                             /\ success'[q] = IF q = p THEN {n} ELSE success[q]
      BY <2>1, <3>1, <3>2 DEF IInv, TypeOK
    <3>4. \A q \in Payouts : Backed(q)'
      BY <2>1, <3>3 DEF BackedInv, Backed
    <3>5. job'[a].at = "record" /\ \A b \in Actors \ {a} : job'[b] = job[b]
      BY <3>1 DEF Go, OnPayout, NoJob, IInv, TypeOK
    <3>6. JobBacked(job[a])'
      BY <3>5 DEF JobBacked
    <3>7. ASSUME NEW b \in Actors \ {a} PROVE JobBacked(job[b])'
      <4>1. job[b].at = "reverse" => job[b].p \in Payouts /\ job[b].p # p
        BY <2>2 DEF BackedInv, JobBacked, IInv, JobOK
      <4> QED  BY <2>1, <3>3, <3>5, <4>1 DEF BackedInv, JobBacked
    <3> QED  BY <3>4, <3>6, <3>7 DEF BackedInv, JobBacked
  <2>3. CASE ~(payout[p].status = "APPROVED" /\ record[p] = "NONE")
    <3>1. End(a) /\ UNCHANGED <<success, record>>
      BY <1>3, <2>3 DEF CompletePayout
    <3> QED  BY <2>1, <3>1, PlainJobs, BackingStays DEF End, Go
  <2> QED  BY <2>2, <2>3
<1>4. CASE ReversePayout(a)
  <2> DEFINE p == job[a].p
  <2>1. p \in Payouts /\ UNCHANGED transfer
    BY <1>4, JobTypes DEF ReversePayout
  <2>2. /\ success' = [success EXCEPT ![p] = @ \ {job[a].n}]
        /\ record' = [record EXCEPT ![p] = "FAILED"]
        /\ Go(a, OnPayout("unrecord", p, 0))
    BY <1>4 DEF ReversePayout
  <2>3. success[p] \subseteq {job[a].n}
    BY <1>4 DEF ReversePayout, BackedInv, JobBacked
  <2>4. \A q \in Payouts : /\ record'[q] = IF q = p THEN "FAILED" ELSE record[q]
                           /\ success'[q] = IF q = p THEN {} ELSE success[q]
    BY <2>1, <2>2, <2>3 DEF IInv, TypeOK
  <2>5. \A q \in Payouts : Backed(q)'
    BY <2>1, <2>4 DEF BackedInv, Backed
  <2>6. job'[a].at = "unrecord" /\ \A b \in Actors \ {a} : job'[b] = job[b]
    BY <2>2 DEF Go, OnPayout, NoJob, IInv, TypeOK
  <2>7. JobBacked(job[a])'
    BY <2>6 DEF JobBacked
  <2>8. ASSUME NEW b \in Actors \ {a} PROVE JobBacked(job[b])'
    <3>1. job[b].at = "reverse" => job[b].p \in Payouts
      BY DEF IInv, JobOK
    <3> QED  BY <2>1, <2>4, <2>6, <3>1 DEF BackedInv, JobBacked
  <2> QED  BY <2>5, <2>7, <2>8 DEF BackedInv, JobBacked
<1> QED  BY <1>1, <1>2, <1>3, <1>4 DEF Step

LEMMA BeginBacked ==
    ASSUME IInv, BackedInv, NEW a \in Actors, Begin(a)
    PROVE  BackedInv'
<1>1. SUFFICES \E j : JobBacked(j) /\ Start(a, j) /\ UNCHANGED <<record, success, transfer>>
  BY BackingStays DEF Start
<1>2. CASE \E o \in Orders : FindEligible(a, o)
  BY <1>2, Types, PlainJobs DEF FindEligible, books
<1>3. CASE \E o \in Orders : RefundClaim(a, o)
  <2> PICK o \in Orders : RefundClaim(a, o)
    BY <1>3
  <2>1. JobBacked([OnOrder("clawback", o, Share[o]) EXCEPT !.seen = entry[o].status])
    BY DEF JobBacked, OnOrder, NoJob
  <2> QED  BY <2>1 DEF RefundClaim
<1>4. CASE \E n \in Amounts : RequestPayout(a, n)
  <2> PICK n \in Amounts : RequestPayout(a, n)
    BY <1>4
  <2>1. JobBacked(OnPayout("create", None, n))
    BY DEF JobBacked, OnPayout, NoJob
  <2> QED  BY <2>1 DEF RequestPayout, books
<1>5. CASE \E p \in Payouts : CheckApproval(a, p) \/ CheckRejection(a, p) \/ Preflight(a, p)
  <2> PICK p \in Payouts : CheckApproval(a, p) \/ CheckRejection(a, p) \/ Preflight(a, p)
    BY <1>5
  <2>1. CASE CheckApproval(a, p)
    BY <2>1, Types, PlainJobs DEF CheckApproval, books
  <2>2. CASE CheckRejection(a, p)
    BY <2>2, PlainJobs DEF CheckRejection, books
  <2>3. CASE Preflight(a, p)
    <3>1. JobBacked(OnPayout("complete", p, 0))
      BY LenIsNat DEF JobBacked, OnPayout, NoJob
    <3> QED  BY <2>3, <3>1, PlainJobs DEF Preflight, books
  <2> QED  BY <2>1, <2>2, <2>3
<1>6. CASE \E p \in Payouts : \E i \in 1..Len(transfer[p]) : OnTransferFailed(a, p, i)
  <2> PICK p \in Payouts : \E i \in 1..Len(transfer[p]) : OnTransferFailed(a, p, i)
    BY <1>6
  <2> PICK i \in 1..Len(transfer[p]) : OnTransferFailed(a, p, i)
    OBVIOUS
  <2>1. i \in success[p]
    BY DEF OnTransferFailed
  <2>2. record[p] = "COMPLETED" /\ success[p] = {i}
    BY <2>1 DEF BackedInv, Backed
  <2>3. JobBacked(OnPayout("reverse", p, i))
    BY <2>2 DEF JobBacked, OnPayout, NoJob
  <2> QED  BY <2>3 DEF OnTransferFailed, books
<1> QED  BY <1>2, <1>3, <1>4, <1>5, <1>6 DEF Begin

LEMMA BackedKept == IInv /\ IInv' /\ BackedInv /\ [Next]_vars => BackedInv'
<1> SUFFICES ASSUME IInv, IInv', BackedInv, [Next]_vars PROVE BackedInv'
  OBVIOUS
<1>1. CASE UNCHANGED vars
  BY <1>1 DEF vars, BackedInv, Backed, JobBacked
<1>2. CASE \E a \in Actors : Step(a) \/ Begin(a)
  BY <1>2, StepBacked, BeginBacked
<1>3. CASE \E o \in Orders : CreateLedger(o)
  BY <1>3 DEF CreateLedger, BackedInv, Backed, JobBacked
<1>4. CASE \E p \in Payouts : \E i \in 1..Len(transfer[p]) : TransferFails(p, i)
  <2> PICK p \in Payouts : \E i \in 1..Len(transfer[p]) : TransferFails(p, i)
    BY <1>4
  <2> PICK i \in 1..Len(transfer[p]) : TransferFails(p, i)
    OBVIOUS
  <2>1. transfer \in [Payouts -> Seq({"sent", "failed"})]
    BY DEF IInv, TypeOK
  <2>2. Len([transfer[p] EXCEPT ![i] = "failed"]) = Len(transfer[p])
    BY <2>1, ExceptSeq
  <2>3. \A q \in Payouts : Len(transfer'[q]) = Len(transfer[q])
    BY <2>1, <2>2 DEF TransferFails
  <2>4. UNCHANGED <<record, success, job>>
    BY DEF TransferFails
  <2>5. \A b \in Actors : job[b].at = "complete" => job[b].p \in Payouts
    BY DEF IInv, JobOK
  <2> QED  BY <2>3, <2>4, <2>5 DEF BackedInv, Backed, JobBacked
<1> QED  BY <1>1, <1>2, <1>3, <1>4 DEF Next

LEMMA BackedInitially == Init => BackedInv
<1> SUFFICES ASSUME Init PROVE BackedInv
  OBVIOUS
<1>1. \A p \in Payouts : record[p] = "NONE" /\ success[p] = {}
  BY DEF Init
<1>2. \A a \in Actors : job[a] = NoJob
  BY DEF Init
<1> QED  BY <1>1, <1>2, PlainJobs DEF BackedInv, Backed

(* However handlers of the same payout overlap, die and come back, an      *)
(* entry is PAID_OUT only on one SUCCESS transaction, of a payment by hand *)
(* or of a transfer that was made (settlement.service.ts:778-871, 883).    *)
THEOREM PaidEntriesRestOnOneTransfer == Spec => []PaidOnOneTransfer
<1>1. IInv /\ BackedInv => PaidOnOneTransfer
  <2> SUFFICES ASSUME IInv, BackedInv, NEW o \in Orders, entry[o].status = "PAID_OUT"
               PROVE  \E i \in 0..Len(transfer[entry[o].payout]) : success[entry[o].payout] = {i}
    BY DEF PaidOnOneTransfer
  <2>1. entry[o].payout \in Payouts /\ record[entry[o].payout] = "COMPLETED"
    BY DEF IInv, PaidEntriesHaveAPayout, TypeOK, Entry
  <2> QED  BY <2>1 DEF BackedInv, Backed
<1>2. IInv /\ BackedInv /\ IInv' /\ [Next]_vars => BackedInv'
  BY BackedKept
<1> QED  BY <1>1, <1>2, BackedInitially, Invariant, PTL DEF Spec

-----------------------------------------------------------------------------
(* The sums, part one: what holds whatever overlaps or dies.  A payout     *)
(* marks its entries in the transaction that makes its record, so nothing  *)
(* was marked for it before, and later only claims change their value.     *)

FreshEntries == \A o \in Orders : entry[o].status = "NONE" => entry[o].net = 0
Unrequested == \A p \in Payouts : payout[p].status = "NONE" => record[p] = "NONE"
ClawbacksOK ==
    \A a \in Actors : job[a].at = "clawback" =>
        job[a].n >= 0 /\ entry[job[a].o].status # "NONE"

LedgerOK ==
    EarnedIsEntries /\ EarmarkedWithinPayout /\ FreshEntries /\ Unrequested /\ ClawbacksOK
LedgerInv == IInv /\ LedgerOK

LEMMA EntryNumbers ==
    ASSUME IInv
    PROVE  /\ NetOf \in [Orders -> Int] /\ \A o \in Orders : NetOf[o] = entry[o].net
           /\ \A S \in SUBSET Orders : PaidBy(S) \in Int
           /\ \A p : MarkedFor(p) \in SUBSET Orders
           /\ \A S : EntriesIn(S) \in SUBSET Orders
<1>1. NetOf \in [Orders -> Int] /\ \A o \in Orders : NetOf[o] = entry[o].net
  BY Types DEF NetOf
<1>2. ASSUME NEW S \in SUBSET Orders PROVE PaidBy(S) \in Int
  BY <1>1, FinitelyManyRows, FS_Subset, SumIsInt DEF PaidBy
<1> QED  BY <1>1, <1>2 DEF MarkedFor, EntriesIn

(* One entry changes: its value, or the sets it is in. *)
LEMMA PaidByMoves ==
    ASSUME IInv, IInv', NEW o \in Orders, NEW S \in SUBSET Orders, NEW T \in SUBSET Orders,
           \A q \in Orders : q # o => entry'[q].net = entry[q].net /\ (q \in T <=> q \in S)
    PROVE  /\ PaidBy(S) \in Int
           /\ SumFunctionOnSet(NetOf', T)
                = PaidBy(S) - Part(o, S, entry[o].net) + Part(o, T, entry'[o].net)
<1> DEFINE f == NetOf
           g == NetOf'
<1>1. /\ f \in [Orders -> Int] /\ \A q \in Orders : f[q] = entry[q].net
      /\ g \in [Orders -> Int] /\ \A q \in Orders : g[q] = entry'[q].net
  <2>1. \A q \in Orders : entry[q].net \in Int /\ entry'[q].net \in Int
    BY DEF IInv, TypeOK, Entry
  <2> QED  BY <2>1 DEF NetOf
<1>2. PaidBy(S) = SumFunctionOnSet(f, S)
  BY DEF PaidBy
<1>3. IsFiniteSet(S) /\ IsFiniteSet(T)
  BY FinitelyManyRows, FS_Subset
<1>4. SumFunctionOnSet(NetOf', T) = SumFunctionOnSet(g, T)
  OBVIOUS
<1> HIDE DEF f, g
<1>5. \A q \in Orders : q # o => g[q] = f[q] /\ (q \in T <=> q \in S)
  BY <1>1
<1>6. /\ SumFunctionOnSet(f, S) \in Int
      /\ SumFunctionOnSet(g, T) = SumFunctionOnSet(f, S) - Part(o, S, f[o]) + Part(o, T, g[o])
  BY <1>1, <1>3, <1>5, SumMoves
<1> QED  BY <1>1, <1>2, <1>4, <1>6

LEMMA ClawbacksKept ==
    ASSUME LedgerInv, NEW a \in Actors, NEW j,
           job' = [job EXCEPT ![a] = j] \/ UNCHANGED job,
           j.at = "clawback" => j.n >= 0 /\ entry'[j.o].status # "NONE",
           \A o \in Orders : entry'[o].status = "NONE" => entry[o].status = "NONE"
    PROVE  ClawbacksOK'
<1> SUFFICES ASSUME NEW b \in Actors, job'[b].at = "clawback"
             PROVE  job'[b].n >= 0 /\ entry'[job'[b].o].status # "NONE"
  BY DEF ClawbacksOK
<1>1. job'[b] = j \/ job'[b] = job[b]
  BY DEF LedgerInv, IInv, TypeOK
<1>2. CASE job'[b] = j
  BY <1>2
<1>3. CASE job'[b] = job[b]
  <2>1. job[b].o \in Orders /\ job[b].n >= 0 /\ entry[job[b].o].status # "NONE"
    BY <1>3, JobTypes DEF LedgerInv, LedgerOK, ClawbacksOK
  <2> QED  BY <1>3, <2>1
<1> QED  BY <1>1, <1>2, <1>3

(* A step that leaves the entries, the payouts and the earnings alone. *)
LEMMA LedgerStays ==
    ASSUME LedgerInv, UNCHANGED <<entry, payout, record>>, wallet'.earned = wallet.earned,
           ClawbacksOK'
    PROVE  LedgerOK'
BY DEF LedgerInv, LedgerOK, EarnedIsEntries, EarmarkedWithinPayout, FreshEntries, Unrequested,
       PaidBy, NetOf, MarkedFor

LEMMA NoJobIsNoClawback == NoJob.at = "idle"
BY DEF NoJob

LEMMA OnPayoutIs ==
    ASSUME NEW s, NEW p, NEW n
    PROVE  OnPayout(s, p, n).at = s /\ OnPayout(s, p, n).p = p /\ OnPayout(s, p, n).n = n
BY DEF OnPayout, NoJob

LEMMA OnOrderIs ==
    ASSUME NEW s, NEW o, NEW n
    PROVE  OnOrder(s, o, n).at = s /\ OnOrder(s, o, n).o = o /\ OnOrder(s, o, n).n = n
BY DEF OnOrder, NoJob

LEMMA CreateLedgerKeepsLedger ==
    ASSUME LedgerInv, IInv', NEW o \in Orders, CreateLedger(o)
    PROVE  LedgerOK'
<1> DEFINE e == [status |-> "PENDING", net |-> Net[o], payout |-> None]
<1>1. /\ entry[o].status = "NONE" /\ entry' = [entry EXCEPT ![o] = e]
      /\ wallet' = [wallet EXCEPT !.pending = wallet.pending + Net[o],
                                  !.earned = wallet.earned + Net[o]]
      /\ UNCHANGED <<payout, record, job>>
  BY DEF CreateLedger
<1>2. /\ entry'[o] = e /\ e.net = Net[o] /\ e.payout = None /\ e.status = "PENDING"
      /\ \A q \in Orders : q # o => entry'[q] = entry[q]
  BY <1>1, Types DEF LedgerInv
<1> HIDE DEF e
<1>3. entry[o].net = 0 /\ entry[o].payout = None /\ Net[o] \in Nat
  BY <1>1, AmountAssumption
     DEF LedgerInv, LedgerOK, FreshEntries, IInv, PaidEntriesHaveAPayout
<1>4. EarnedIsEntries'
  <2>1. /\ PaidBy(Orders) \in Int
        /\ SumFunctionOnSet(NetOf', Orders)
             = PaidBy(Orders) - Part(o, Orders, entry[o].net) + Part(o, Orders, entry'[o].net)
    BY <1>2, PaidByMoves DEF LedgerInv
  <2>2. Part(o, Orders, entry[o].net) = 0 /\ Part(o, Orders, entry'[o].net) = Net[o]
    BY <1>2, <1>3 DEF Part
  <2>3. wallet'.earned = wallet.earned + Net[o]
    BY <1>1, Types DEF LedgerInv, Wallet
  <2>4. wallet.earned = PaidBy(Orders)
    BY DEF LedgerInv, LedgerOK, EarnedIsEntries
  <2>5. SumFunctionOnSet(NetOf', Orders) = wallet'.earned
    BY <1>3, <2>1, <2>2, <2>3, <2>4
  <2> QED  BY <2>5 DEF EarnedIsEntries, PaidBy
<1>5. EarmarkedWithinPayout'
  <2> SUFFICES ASSUME NEW p \in Payouts
               PROVE  SumFunctionOnSet(NetOf', MarkedFor(p)') <= payout[p].amount
    BY <1>1 DEF EarmarkedWithinPayout, PaidBy
  <2>1. o \notin MarkedFor(p) /\ o \notin MarkedFor(p)'
    BY <1>2, <1>3, NoneAssumption DEF MarkedFor
  <2>2. \A q \in Orders : q # o => entry'[q].net = entry[q].net
                                   /\ (q \in MarkedFor(p)' <=> q \in MarkedFor(p))
    BY <1>2 DEF MarkedFor
  <2>3. MarkedFor(p) \in SUBSET Orders /\ MarkedFor(p)' \in SUBSET Orders
    BY DEF MarkedFor
  <2>4. /\ PaidBy(MarkedFor(p)) \in Int
        /\ SumFunctionOnSet(NetOf', MarkedFor(p)')
             = PaidBy(MarkedFor(p)) - Part(o, MarkedFor(p), entry[o].net)
               + Part(o, MarkedFor(p)', entry'[o].net)
    BY <2>2, <2>3, PaidByMoves DEF LedgerInv
  <2>5. Part(o, MarkedFor(p), entry[o].net) = 0 /\ Part(o, MarkedFor(p)', entry'[o].net) = 0
    BY <2>1 DEF Part
  <2>6. PaidBy(MarkedFor(p)) <= payout[p].amount
    BY DEF LedgerInv, LedgerOK, EarmarkedWithinPayout
  <2> QED  BY <2>4, <2>5, <2>6
<1>6. FreshEntries' /\ Unrequested'
  BY <1>1, <1>2 DEF LedgerInv, LedgerOK, FreshEntries, Unrequested
<1>7. ClawbacksOK'
  <2> SUFFICES ASSUME NEW a \in Actors, job[a].at = "clawback"
               PROVE  job[a].n >= 0 /\ entry'[job[a].o].status # "NONE"
    BY <1>1 DEF ClawbacksOK
  <2>1. job[a].o \in Orders /\ job[a].n >= 0
    BY JobTypes DEF LedgerInv, LedgerOK, ClawbacksOK
  <2>2. entry'[job[a].o] = entry[job[a].o] \/ entry'[job[a].o] = e
    BY <1>2, <2>1
  <2> QED  BY <1>2, <2>1, <2>2 DEF LedgerInv, LedgerOK, ClawbacksOK
<1> QED  BY <1>4, <1>5, <1>6, <1>7 DEF LedgerOK

LEMMA ClawbackKeepsLedger ==
    ASSUME LedgerInv, IInv', NEW a \in Actors, Clawback(a)
    PROVE  LedgerOK'
<1> DEFINE o == job[a].o  n == job[a].n
<1>1. /\ job[a].at = "clawback" /\ entry' = [entry EXCEPT ![o].net = entry[o].net - n]
      /\ job' = [job EXCEPT ![a] = NoJob] /\ UNCHANGED <<payout, record>>
  BY DEF Clawback, End, Go
<1>2. o \in Orders /\ n \in Int /\ n >= 0 /\ entry[o].status # "NONE"
  BY <1>1, JobTypes DEF LedgerInv, LedgerOK, ClawbacksOK
<1>3. /\ entry'[o].net = entry[o].net - n /\ entry[o].net \in Int
      /\ entry'[o].status = entry[o].status /\ entry'[o].payout = entry[o].payout
      /\ \A q \in Orders : q # o => entry'[q] = entry[q]
  BY <1>1, <1>2, Types DEF LedgerInv, Entry
<1>4. wallet'.earned = wallet.earned - n
  BY Types DEF Clawback, LedgerInv, Wallet
<1> HIDE DEF o, n
<1>5. EarnedIsEntries'
  <2>1. /\ PaidBy(Orders) \in Int
        /\ SumFunctionOnSet(NetOf', Orders)
             = PaidBy(Orders) - Part(o, Orders, entry[o].net) + Part(o, Orders, entry'[o].net)
    BY <1>2, <1>3, PaidByMoves DEF LedgerInv
  <2>2. Part(o, Orders, entry[o].net) = entry[o].net
        /\ Part(o, Orders, entry'[o].net) = entry[o].net - n
    BY <1>2, <1>3 DEF Part
  <2>3. wallet.earned = PaidBy(Orders)
    BY DEF LedgerInv, LedgerOK, EarnedIsEntries
  <2>4. SumFunctionOnSet(NetOf', Orders) = wallet'.earned
    BY <1>2, <1>3, <1>4, <2>1, <2>2, <2>3
  <2> QED  BY <2>4 DEF EarnedIsEntries, PaidBy
<1>6. EarmarkedWithinPayout'
  <2> SUFFICES ASSUME NEW p \in Payouts
               PROVE  SumFunctionOnSet(NetOf', MarkedFor(p)') <= payout[p].amount
    BY <1>1 DEF EarmarkedWithinPayout, PaidBy
  <2> DEFINE S == MarkedFor(p)
  <2>1. S \in SUBSET Orders /\ MarkedFor(p)' = S
    BY <1>3 DEF MarkedFor
  <2>2. PaidBy(S) <= payout[p].amount
    BY DEF LedgerInv, LedgerOK, EarmarkedWithinPayout
  <2>3. \A q \in Orders : q # o => entry'[q].net = entry[q].net
    BY <1>3
  <2> HIDE DEF S
  <2>4. PICK R \in SUBSET Orders : R = S
    BY <2>1
  <2>5. /\ PaidBy(R) \in Int
        /\ SumFunctionOnSet(NetOf', R)
             = PaidBy(R) - Part(o, R, entry[o].net) + Part(o, R, entry'[o].net)
    BY <1>2, <2>3, PaidByMoves DEF LedgerInv
  <2>6. /\ Part(o, R, entry'[o].net) <= Part(o, R, entry[o].net)
        /\ Part(o, R, entry'[o].net) \in Int /\ Part(o, R, entry[o].net) \in Int
    BY <1>2, <1>3 DEF Part
  <2>7. payout[p].amount \in Int
    BY Types DEF LedgerInv
  <2> QED  BY <2>1, <2>2, <2>4, <2>5, <2>6, <2>7
<1>7. FreshEntries' /\ Unrequested'
  BY <1>1, <1>2, <1>3 DEF LedgerInv, LedgerOK, FreshEntries, Unrequested
<1>8. ClawbacksOK'
  BY <1>1, <1>3, NoJobIsNoClawback, ClawbacksKept
<1> QED  BY <1>5, <1>6, <1>7, <1>8 DEF LedgerOK

LEMMA SettleKeepsLedger ==
    ASSUME LedgerInv, NEW a \in Actors, Settle(a)
    PROVE  LedgerOK'
<1> DEFINE o == job[a].o
<1>1. /\ job' = [job EXCEPT ![a] = NoJob] /\ UNCHANGED <<payout, record>> /\ o \in Orders
  BY JobTypes DEF Settle, End, Go, LedgerInv
<1>2. /\ \A q \in Orders : /\ entry'[q].net = entry[q].net /\ entry'[q].payout = entry[q].payout
                           /\ entry'[q].status = "NONE" <=> entry[q].status = "NONE"
      /\ wallet'.earned = wallet.earned
  <2>1. CASE entry[o].status = "PENDING"
    <3>1. entry' = [entry EXCEPT ![o].status = "SETTLED"]
      BY <2>1 DEF Settle
    <3>2. wallet' = [wallet EXCEPT !.pending = wallet.pending - job[a].n,
                                   !.available = wallet.available + job[a].n]
      BY <2>1 DEF Settle
    <3> QED  BY <1>1, <2>1, <3>1, <3>2, Types DEF LedgerInv, Entry, Wallet
  <2>2. CASE entry[o].status # "PENDING"
    BY <2>2 DEF Settle
  <2> QED  BY <2>1, <2>2
<1>3. NetOf' = NetOf /\ \A p : MarkedFor(p)' = MarkedFor(p)
  BY <1>2 DEF NetOf, MarkedFor
<1>4. EarnedIsEntries' /\ EarmarkedWithinPayout' /\ FreshEntries' /\ Unrequested'
  BY <1>1, <1>2, <1>3 DEF LedgerInv, LedgerOK, EarnedIsEntries, EarmarkedWithinPayout, PaidBy,
                          FreshEntries, Unrequested
<1>5. ClawbacksOK'
  BY <1>1, <1>2, NoJobIsNoClawback, ClawbacksKept
<1> QED  BY <1>4, <1>5 DEF LedgerOK

(* A payout is requested, approved or rejected. *)
LEMMA PayoutStepKeepsLedger ==
    ASSUME LedgerInv, NEW a \in Actors,
           CreatePayoutRequest(a) \/ ApprovePayoutRequest(a) \/ RejectPayoutRequest(a)
    PROVE  LedgerOK'
<1>1. job' = [job EXCEPT ![a] = NoJob] /\ UNCHANGED <<entry, record>>
  BY DEF CreatePayoutRequest, ApprovePayoutRequest, RejectPayoutRequest, End, Go
<1>2. wallet'.earned = wallet.earned
  BY Types DEF CreatePayoutRequest, ApprovePayoutRequest, RejectPayoutRequest, LedgerInv, Wallet
<1>3. \A p \in Payouts : payout'[p].status = "NONE" => payout[p].status = "NONE"
  <2>1. CASE CreatePayoutRequest(a)
    <3>1. PICK q \in Payouts :
             payout' = [payout EXCEPT ![q] = [status |-> "PENDING", amount |-> job[a].n]]
      BY <2>1 DEF CreatePayoutRequest
    <3> QED  BY <3>1, Types DEF LedgerInv
  <2>2. CASE \E s \in {"APPROVED", "REJECTED"} : payout' = [payout EXCEPT ![job[a].p].status = s]
    BY <2>2, Types DEF LedgerInv, Payout
  <2> QED  BY <2>1, <2>2 DEF ApprovePayoutRequest, RejectPayoutRequest
<1>4. Unrequested'
  BY <1>1, <1>3 DEF LedgerInv, LedgerOK, Unrequested
<1>5. NetOf' = NetOf /\ \A p : MarkedFor(p)' = MarkedFor(p)
  BY <1>1 DEF NetOf, MarkedFor
<1>6. EarmarkedWithinPayout'
  <2> SUFFICES ASSUME NEW p \in Payouts PROVE PaidBy(MarkedFor(p))' <= payout'[p].amount
    BY DEF EarmarkedWithinPayout
  <2>1. PaidBy(MarkedFor(p))' = PaidBy(MarkedFor(p)) /\ PaidBy(MarkedFor(p)) <= payout[p].amount
    BY <1>5 DEF PaidBy, LedgerInv, LedgerOK, EarmarkedWithinPayout
  <2>2. CASE payout'[p].amount = payout[p].amount
    BY <2>1, <2>2
  <2>3. CASE /\ CreatePayoutRequest(a) /\ payout[p].status = "NONE"
             /\ payout'[p] = [status |-> "PENDING", amount |-> job[a].n]
    <3>1. record[p] = "NONE"
      BY <2>3 DEF LedgerInv, LedgerOK, Unrequested
    <3>2. MarkedFor(p) = {}
      BY <3>1, NoneAssumption DEF MarkedFor, LedgerInv, IInv, PaidEntriesHaveAPayout
    <3>3. SumFunctionOnSet(NetOf, {}) = 0
      BY EntryNumbers, SumEmpty DEF LedgerInv
    <3>4. PaidBy(MarkedFor(p)) = 0
      BY <3>2, <3>3 DEF PaidBy
    <3>5. job[a].n >= 0
      BY <2>3, JobTypes DEF CreatePayoutRequest, LedgerInv
    <3> QED  BY <2>1, <2>3, <3>4, <3>5
  <2>4. \/ payout'[p].amount = payout[p].amount
        \/ /\ CreatePayoutRequest(a) /\ payout[p].status = "NONE"
           /\ payout'[p] = [status |-> "PENDING", amount |-> job[a].n]
    <3>1. CASE CreatePayoutRequest(a)
      <4>1. PICK q \in Payouts :
               /\ payout[q].status = "NONE"
               /\ payout' = [payout EXCEPT ![q] = [status |-> "PENDING", amount |-> job[a].n]]
        BY <3>1 DEF CreatePayoutRequest
      <4> QED  BY <3>1, <4>1, Types DEF LedgerInv
    <3>2. CASE \E s \in {"APPROVED", "REJECTED"} : payout' = [payout EXCEPT ![job[a].p].status = s]
      BY <3>2, Types DEF LedgerInv, Payout
    <3> QED  BY <3>1, <3>2 DEF ApprovePayoutRequest, RejectPayoutRequest
  <2> QED  BY <2>2, <2>3, <2>4
<1>7. EarnedIsEntries' /\ FreshEntries'
  BY <1>1, <1>2, <1>5 DEF LedgerInv, LedgerOK, EarnedIsEntries, PaidBy, FreshEntries
<1>8. ClawbacksOK'
  BY <1>1, NoJobIsNoClawback, ClawbacksKept
<1> QED  BY <1>4, <1>6, <1>7, <1>8 DEF LedgerOK

LEMMA CompletePayoutKeepsLedger ==
    ASSUME LedgerInv, NEW a \in Actors, CompletePayout(a)
    PROVE  LedgerOK'
<1> DEFINE p == job[a].p
<1>1. p \in Payouts
  BY JobTypes DEF CompletePayout, LedgerInv
<1>2. CASE payout[p].status = "APPROVED" /\ record[p] = "NONE"
  <2>1. /\ payout' = [payout EXCEPT ![p].status = "COMPLETED"]
        /\ record' = [record EXCEPT ![p] = "COMPLETED"]
        /\ wallet' = [wallet EXCEPT !.paidOut = wallet.paidOut + payout[p].amount]
        /\ job' = [job EXCEPT ![a] = OnPayout("record", p, 0)]
    BY <1>2 DEF CompletePayout, Go
  <2>2. PICK E \in Earmarks(payout[p].amount) :
          entry' = [o \in Orders |->
              IF o \in E THEN [entry[o] EXCEPT !.status = "PAID_OUT", !.payout = p]
                         ELSE entry[o]]
    BY <1>2 DEF CompletePayout
  <2>3. /\ E \in SUBSET Orders /\ PaidBy(E) <= payout[p].amount
        /\ \A o \in E : entry[o].status = "SETTLED" /\ entry[o].payout = None
    BY DEF Earmarks
  <2>4. \A o \in Orders :
           /\ entry'[o].net = entry[o].net
           /\ entry'[o].payout = IF o \in E THEN p ELSE entry[o].payout
           /\ entry'[o].status = "NONE" <=> entry[o].status = "NONE"
    BY <2>2, <2>3, Types DEF LedgerInv, Entry
  <2>5. \A q \in Payouts : /\ payout'[q].amount = payout[q].amount
                           /\ q # p => payout'[q] = payout[q] /\ record'[q] = record[q]
                           /\ payout'[p].status = "COMPLETED"
    BY <1>1, <2>1, Types DEF LedgerInv, Payout, IInv, TypeOK
  <2>6. wallet'.earned = wallet.earned
    BY <2>1, Types DEF LedgerInv, Wallet
  <2> HIDE DEF p
  <2>7. NetOf' = NetOf
    BY <2>4 DEF NetOf
  <2>8. EarmarkedWithinPayout'
    <3> SUFFICES ASSUME NEW q \in Payouts
                 PROVE  SumFunctionOnSet(NetOf, MarkedFor(q)') <= payout[q].amount
      BY <2>5, <2>7 DEF EarmarkedWithinPayout, PaidBy
    <3>1. CASE q = p
      <4>1. \A o \in Orders : entry[o].payout # p
        BY <1>1, <1>2, NoneAssumption DEF LedgerInv, IInv, PaidEntriesHaveAPayout, p
      <4>2. MarkedFor(q)' = E
        BY <2>3, <2>4, <3>1, <4>1 DEF MarkedFor
      <4> QED  BY <2>3, <3>1, <4>2 DEF PaidBy
    <3>2. CASE q # p
      <4>1. MarkedFor(q)' = MarkedFor(q)
        BY <2>3, <2>4, <3>2, NoneAssumption DEF MarkedFor
      <4> QED  BY <4>1 DEF LedgerInv, LedgerOK, EarmarkedWithinPayout, PaidBy
    <3> QED  BY <3>1, <3>2
  <2>9. EarnedIsEntries' /\ FreshEntries' /\ Unrequested'
    BY <2>4, <2>5, <2>6, <2>7 DEF LedgerInv, LedgerOK, EarnedIsEntries, PaidBy, FreshEntries,
                                  Unrequested
  <2>10. ClawbacksOK'
    <3>1. OnPayout("record", p, 0).at = "record"
      BY OnPayoutIs
    <3> QED  BY <2>1, <2>4, <3>1, ClawbacksKept
  <2> QED  BY <2>8, <2>9, <2>10 DEF LedgerOK
<1>3. CASE ~(payout[p].status = "APPROVED" /\ record[p] = "NONE")
  <2>1. job' = [job EXCEPT ![a] = NoJob] /\ UNCHANGED <<entry, payout, record, wallet>>
    BY <1>3 DEF CompletePayout, End, Go
  <2>2. ClawbacksOK'
    BY <2>1, NoJobIsNoClawback, ClawbacksKept
  <2> QED  BY <2>1, <2>2, LedgerStays
<1> QED  BY <1>2, <1>3

LEMMA ReversePayoutKeepsLedger ==
    ASSUME LedgerInv, NEW a \in Actors, ReversePayout(a)
    PROVE  LedgerOK'
<1> DEFINE p == job[a].p
<1>1. /\ p \in Payouts
      /\ payout' = [payout EXCEPT ![p].status = "APPROVED"]
      /\ record' = [record EXCEPT ![p] = "FAILED"]
      /\ wallet' = [wallet EXCEPT !.paidOut = wallet.paidOut - payout[p].amount]
      /\ entry' = [o \in Orders |->
             IF entry[o].payout = p THEN [entry[o] EXCEPT !.status = "SETTLED", !.payout = None]
                                    ELSE entry[o]]
      /\ job' = [job EXCEPT ![a] = OnPayout("unrecord", p, 0)]
  BY JobTypes DEF ReversePayout, Go, LedgerInv
<1> HIDE DEF p
<1>2. \A o \in Orders : entry[o].payout = p => entry[o].status = "PAID_OUT"
  BY <1>1, NoneAssumption DEF LedgerInv, IInv, PaidEntriesHaveAPayout
<1>3. \A o \in Orders :
         /\ entry'[o].net = entry[o].net
         /\ entry'[o].payout = IF entry[o].payout = p THEN None ELSE entry[o].payout
         /\ entry'[o].status = "NONE" <=> entry[o].status = "NONE"
  BY <1>1, <1>2, Types DEF LedgerInv, Entry
<1>4. \A q \in Payouts : /\ payout'[q].amount = payout[q].amount /\ payout[q].amount \in Nat
                         /\ q # p => payout'[q] = payout[q] /\ record'[q] = record[q]
                         /\ payout'[p].status = "APPROVED"
  BY <1>1, Types DEF LedgerInv, Payout, IInv, TypeOK
<1>5. wallet'.earned = wallet.earned
  BY <1>1, Types DEF LedgerInv, Wallet
<1>6. NetOf' = NetOf
  BY <1>3 DEF NetOf
<1>7. EarmarkedWithinPayout'
  <2> SUFFICES ASSUME NEW q \in Payouts
               PROVE  SumFunctionOnSet(NetOf, MarkedFor(q)') <= payout[q].amount
    BY <1>4, <1>6 DEF EarmarkedWithinPayout, PaidBy
  <2>1. CASE q = p
    <3>1. MarkedFor(q)' = {}
      BY <1>1, <1>3, <2>1, NoneAssumption DEF MarkedFor
    <3>2. SumFunctionOnSet(NetOf, {}) = 0
      BY EntryNumbers, SumEmpty DEF LedgerInv
    <3> QED  BY <1>4, <3>1, <3>2
  <2>2. CASE q # p
    <3>1. MarkedFor(q)' = MarkedFor(q)
      BY <1>3, <2>2, NoneAssumption DEF MarkedFor
    <3> QED  BY <3>1 DEF LedgerInv, LedgerOK, EarmarkedWithinPayout, PaidBy
  <2> QED  BY <2>1, <2>2
<1>8. EarnedIsEntries' /\ FreshEntries' /\ Unrequested'
  BY <1>3, <1>4, <1>5, <1>6 DEF LedgerInv, LedgerOK, EarnedIsEntries, PaidBy, FreshEntries,
                                Unrequested
<1>9. ClawbacksOK'
  <2>1. OnPayout("unrecord", p, 0).at = "unrecord"
    BY OnPayoutIs
  <2> QED  BY <1>1, <1>3, <2>1, ClawbacksKept
<1> QED  BY <1>7, <1>8, <1>9 DEF LedgerOK

(* Steps that touch neither entries nor payouts. *)
LEMMA OthersKeepLedger ==
    ASSUME LedgerInv, NEW a \in Actors, NEW j, job' = [job EXCEPT ![a] = j],
           j.at = "clawback" => j.n >= 0 /\ entry[j.o].status # "NONE",
           UNCHANGED <<entry, wallet, payout, record>>
    PROVE  LedgerOK'
<1>1. ClawbacksOK'
  BY ClawbacksKept
<1> QED  BY <1>1, LedgerStays

LEMMA BeginKeepsLedger ==
    ASSUME LedgerInv, NEW a \in Actors, Begin(a)
    PROVE  LedgerOK'
<1>1. ASSUME NEW o \in Orders, RefundClaim(a, o) PROVE LedgerOK'
  <2> DEFINE j == [OnOrder("clawback", o, Share[o]) EXCEPT !.seen = entry[o].status]
  <2>1. job' = [job EXCEPT ![a] = j] /\ entry[o].status # "NONE" /\ Share[o] >= 0
        /\ UNCHANGED <<entry, wallet, payout, record>>
    BY <1>1, AmountAssumption DEF RefundClaim, Start
  <2>2. j.n = Share[o] /\ j.o = o
    BY DEF OnOrder, NoJob
  <2> HIDE DEF j
  <2> QED  BY <2>1, <2>2, OthersKeepLedger
<1>2. ASSUME NEW o \in Orders, FindEligible(a, o) PROVE LedgerOK'
  <2> DEFINE j == OnOrder("settle", o, entry[o].net)
  <2>1. job' = [job EXCEPT ![a] = j] /\ UNCHANGED <<entry, wallet, payout, record>>
    BY <1>2 DEF FindEligible, Start, books
  <2>2. j.at = "settle"
    BY OnOrderIs
  <2> HIDE DEF j
  <2> QED  BY <2>1, <2>2, OthersKeepLedger
<1>3. ASSUME NEW s, s # "clawback", NEW p, NEW n, Start(a, OnPayout(s, p, n)), UNCHANGED books
      PROVE  LedgerOK'
  <2> DEFINE j == OnPayout(s, p, n)
  <2>1. job' = [job EXCEPT ![a] = j] /\ UNCHANGED <<entry, wallet, payout, record>>
    BY <1>3 DEF Start, books
  <2>2. j.at = s
    BY OnPayoutIs
  <2> HIDE DEF j
  <2> QED  BY <1>3, <2>1, <2>2, OthersKeepLedger
<1>4. CASE \E n \in Amounts : RequestPayout(a, n)
  BY <1>3, <1>4 DEF RequestPayout
<1>5. CASE \E p \in Payouts : CheckApproval(a, p) \/ CheckRejection(a, p) \/ Preflight(a, p)
  BY <1>3, <1>5 DEF CheckApproval, CheckRejection, Preflight
<1>6. CASE \E p \in Payouts : \E i \in 1..Len(transfer[p]) : OnTransferFailed(a, p, i)
  BY <1>3, <1>6 DEF OnTransferFailed
<1> QED  BY <1>1, <1>2, <1>4, <1>5, <1>6 DEF Begin

LEMMA LedgerKept == LedgerInv /\ IInv' /\ [Next]_vars => LedgerOK'
<1> SUFFICES ASSUME LedgerInv, IInv', [Next]_vars PROVE LedgerOK'
  OBVIOUS
<1>1. ASSUME NEW a \in Actors, CreateTransfer(a) PROVE LedgerOK'
  <2>1. UNCHANGED <<entry, wallet, payout, record>>
    BY <1>1 DEF CreateTransfer
  <2>2. CASE Go(a, NoJob)
    BY <2>1, <2>2, NoJobIsNoClawback, OthersKeepLedger DEF Go
  <2>3. CASE \E n : Go(a, OnPayout("complete", job[a].p, n))
    <3>1. PICK n : Go(a, OnPayout("complete", job[a].p, n))
      BY <2>3
    <3>2. PICK j : j = OnPayout("complete", job[a].p, n)
      OBVIOUS
    <3>3. j.at = "complete" /\ job' = [job EXCEPT ![a] = j]
      BY <3>1, <3>2, OnPayoutIs DEF Go
    <3> QED  BY <2>1, <3>3, OthersKeepLedger
  <2> QED  BY <1>1, <2>2, <2>3 DEF CreateTransfer, End
<1>2. ASSUME NEW a \in Actors, PostJournal(a) \/ Crash(a) PROVE LedgerOK'
  <2>1. job' = [job EXCEPT ![a] = NoJob] /\ UNCHANGED <<entry, wallet, payout, record>>
    BY <1>2 DEF PostJournal, Crash, End, Go, books
  <2> QED  BY <2>1, NoJobIsNoClawback, OthersKeepLedger
<1>3. CASE UNCHANGED <<entry, wallet, payout, record, job>>
  <2>1. ClawbacksOK'
    BY <1>3 DEF LedgerInv, LedgerOK, ClawbacksOK
  <2> QED  BY <1>3, <2>1, LedgerStays
<1>4. ASSUME NEW a \in Actors, Step(a) PROVE LedgerOK'
  BY <1>1, <1>2, <1>4, SettleKeepsLedger, ClawbackKeepsLedger, PayoutStepKeepsLedger,
     CompletePayoutKeepsLedger, ReversePayoutKeepsLedger DEF Step
<1> QED
  BY <1>3, <1>4, BeginKeepsLedger, CreateLedgerKeepsLedger DEF Next, vars, TransferFails

LEMMA LedgerInitially == Init => LedgerOK
<1> SUFFICES ASSUME Init PROVE LedgerOK
  OBVIOUS
<1>1. /\ \A o \in Orders : entry[o].net = 0 /\ entry[o].payout = None
      /\ wallet.earned = 0 /\ \A p \in Payouts : payout[p].amount = 0 /\ record[p] = "NONE"
      /\ \A a \in Actors : job[a] = NoJob
  BY DEF Init
<1>2. NetOf \in [Orders -> Int] /\ \A o \in Orders : NetOf[o] = 0
  BY <1>1 DEF NetOf
<1>3. SumFunctionOnSet(NetOf, Orders) = 0 /\ SumFunctionOnSet(NetOf, {}) = 0
  BY <1>2, FinitelyManyRows, SumOfZeros, SumEmpty
<1>4. EarnedIsEntries
  BY <1>1, <1>3 DEF EarnedIsEntries, PaidBy
<1>5. \A p \in Payouts : MarkedFor(p) = {}
  BY <1>1, NoneAssumption DEF MarkedFor
<1>6. EarmarkedWithinPayout
  BY <1>1, <1>3, <1>5 DEF EarmarkedWithinPayout, PaidBy
<1>7. FreshEntries /\ Unrequested /\ ClawbacksOK
  BY <1>1, NoJobIsNoClawback DEF FreshEntries, Unrequested, ClawbacksOK
<1> QED  BY <1>4, <1>6, <1>7 DEF LedgerOK

LEMMA LedgerAlways == Spec => []LedgerInv
<1>1. Init => LedgerInv
  BY Initially, LedgerInitially DEF LedgerInv
<1>2. LedgerInv /\ [Next]_vars => LedgerInv'
  BY Inductive, LedgerKept DEF LedgerInv
<1> QED  BY <1>1, <1>2, PTL DEF Spec

(* Whatever overlaps, dies or comes back, the entries marked for a payout  *)
(* are never worth more than it paid (processPayoutRequest), for any       *)
(* number of orders, payouts and handlers and all amounts.                 *)
THEOREM EarmarksAlwaysWithinPayout == Spec => []EarmarkedWithinPayout
<1>1. LedgerInv => EarmarkedWithinPayout
  BY DEF LedgerInv, LedgerOK
<1> QED  BY <1>1, LedgerAlways, PTL

-----------------------------------------------------------------------------
(* The sums, part two: what holds as long as no handler overlaps another   *)
(* or dies.  What a handler has read is then still so when it writes, and  *)
(* a payout lacks at most the journal its handler is about to post.        *)

OneHandler == \A a, b \in Actors : job[a] # NoJob /\ job[b] # NoJob => a = b

(* What handler j has read still holds. *)
Current(j) ==
    /\ j.at = "settle" => entry[j.o].status = "PENDING" /\ j.n = entry[j.o].net
    /\ j.at = "clawback" => j.seen = entry[j.o].status /\ claim[j.o] = j.seen /\ j.seen # "NONE"
    /\ j.at = "approve" => payout[j.p].status = "PENDING" /\ j.n = payout[j.p].amount
    /\ j.at = "reject" => payout[j.p].status = "PENDING"
    /\ j.at = "reverse" => record[j.p] = "COMPLETED" /\ j.n \in success[j.p]
    /\ j.at = "record" => record[j.p] = "COMPLETED"
    /\ j.at = "unrecord" => record[j.p] = "FAILED"

(* The rows of payout p tell one story, but for what handler j has to do. *)
PayoutOK(p, j) ==
    /\ payout[p].status = "COMPLETED" <=> record[p] = "COMPLETED"
    /\ record[p] # "COMPLETED" => success[p] = {}
    /\ \A i, k \in success[p] : i = k
    /\ "payout" \in journal[p] <=> record[p] # "NONE" /\ ~(j.at = "record" /\ j.p = p)
    /\ "reversal" \in journal[p] <=> record[p] = "FAILED" /\ ~(j.at = "unrecord" /\ j.p = p)

Agree(j) == Current(j) /\ \A p \in Payouts : PayoutOK(p, j)
Handlers ==
    /\ OneHandler
    /\ Quiet => Agree(NoJob)
    /\ \A a \in Actors : job[a] # NoJob => Agree(job[a])
Sums == NothingLeaks /\ PendingIsEntries /\ PaidOutIsPayouts

CalmInv == calm => Handlers /\ Sums
BooksInv == LedgerInv /\ CalmInv

Alone(a) == \A b \in Actors : b # a => job[b] = NoJob

(* A handler that acts in calm is the only one; what it has read holds. *)
LEMMA ActsAlone ==
    ASSUME BooksInv, NEW a \in Actors, calm, job[a] # NoJob \/ Quiet
    PROVE  Alone(a) /\ Agree(job[a]) /\ Sums
<1>1. CASE job[a] # NoJob
  BY <1>1 DEF BooksInv, CalmInv, Handlers, OneHandler, Alone
<1>2. CASE Quiet
  <2>1. job[a] = NoJob
    BY <1>2 DEF Quiet
  <2> QED  BY <1>2, <2>1 DEF BooksInv, CalmInv, Handlers, Quiet, Alone
<1> QED  BY <1>1, <1>2

LEMMA BeginsAlone ==
    ASSUME BooksInv, NEW a \in Actors, NEW j, Start(a, j), calm'
    PROVE  /\ Alone(a) /\ Agree(NoJob) /\ Sums /\ job' = [job EXCEPT ![a] = j]
<1>1. job[a] = NoJob /\ Quiet /\ calm /\ job' = [job EXCEPT ![a] = j]
  BY DEF Start
<1> QED  BY <1>1, ActsAlone

LEMMA HandlersGoOn ==
    ASSUME BooksInv, NEW a \in Actors, NEW j, job' = [job EXCEPT ![a] = j], Alone(a), Agree(j)'
    PROVE  Handlers'
<1>1. job'[a] = j /\ \A b \in Actors : b # a => job'[b] = NoJob
  BY DEF Alone, BooksInv, LedgerInv, IInv, TypeOK
<1>2. OneHandler'
  BY <1>1 DEF OneHandler
<1>3. Quiet' => Agree(NoJob)'
  BY <1>1 DEF Quiet
<1>4. ASSUME NEW b \in Actors, job'[b] # NoJob PROVE Agree(job[b])'
  BY <1>1, <1>4
<1> QED  BY <1>2, <1>3, <1>4 DEF Handlers

(* Handlers that post no journal leave the stories of the payouts alone. *)
Posts(j) == j.at \in {"record", "unrecord"}

LEMMA PayoutsStay ==
    ASSUME NEW i, NEW j, ~Posts(i), ~Posts(j), Agree(i),
           UNCHANGED <<payout, record, success, journal>>
    PROVE  \A p \in Payouts : PayoutOK(p, j)'
BY DEF Agree, PayoutOK, Posts

(* One payout changes. *)
LEMMA PayoutMoves ==
    ASSUME IInv, IInv', NEW p \in Payouts, NEW S,
           \A q \in Payouts : q # p => payout'[q] = payout[q]
    PROVE  /\ PayoutsIn(S) \in Int
           /\ PayoutsIn(S)' = PayoutsIn(S) - Part(payout[p].status, S, payout[p].amount)
                                           + Part(payout'[p].status, S, payout'[p].amount)
<1> DEFINE f == AmountOf
           g == AmountOf'
           B == {q \in Payouts : payout[q].status \in S}
           C == {q \in Payouts : payout'[q].status \in S}
<1>1. /\ f \in [Payouts -> Int] /\ \A q \in Payouts : f[q] = payout[q].amount
      /\ g \in [Payouts -> Int] /\ \A q \in Payouts : g[q] = payout'[q].amount
  <2>1. \A q \in Payouts : payout[q].amount \in Nat /\ payout'[q].amount \in Nat
    BY DEF IInv, TypeOK, Payout
  <2> QED  BY <2>1 DEF AmountOf
<1>2. PayoutsIn(S) = SumFunctionOnSet(f, B) /\ PayoutsIn(S)' = SumFunctionOnSet(g, C)
  BY DEF PayoutsIn
<1>3. /\ B \in SUBSET Payouts /\ C \in SUBSET Payouts
      /\ p \in B <=> payout[p].status \in S
      /\ p \in C <=> payout'[p].status \in S
      /\ \A q \in Payouts : q # p => (q \in C <=> q \in B)
  OBVIOUS
<1> HIDE DEF f, g, B, C
<1>4. IsFiniteSet(B) /\ IsFiniteSet(C)
  BY <1>3, FinitelyManyRows, FS_Subset
<1>5. \A q \in Payouts : q # p => g[q] = f[q] /\ (q \in C <=> q \in B)
  BY <1>1, <1>3
<1>6. /\ SumFunctionOnSet(f, B) \in Int
      /\ SumFunctionOnSet(g, C) = SumFunctionOnSet(f, B) - Part(p, B, f[p]) + Part(p, C, g[p])
  BY <1>1, <1>3, <1>4, <1>5, SumMoves
<1>7. /\ Part(p, B, f[p]) = Part(payout[p].status, S, payout[p].amount)
      /\ Part(p, C, g[p]) = Part(payout'[p].status, S, payout'[p].amount)
  BY <1>1, <1>3 DEF Part
<1> QED  BY <1>2, <1>6, <1>7

LEMMA PayoutsNumber == ASSUME IInv, NEW S PROVE PayoutsIn(S) \in Int
<1> DEFINE B == {q \in Payouts : payout[q].status \in S}
<1>1. AmountOf \in [Payouts -> Int]
  <2>1. \A q \in Payouts : payout[q].amount \in Nat
    BY Types
  <2> QED  BY <2>1 DEF AmountOf
<1>2. IsFiniteSet(B) /\ B \in SUBSET Payouts
  BY FinitelyManyRows, FS_Subset
<1> QED  BY <1>1, <1>2, SumIsInt DEF PayoutsIn

(* What the pending entries are worth. *)
PendingSum == PaidBy(EntriesIn({"PENDING"}))

LEMMA PendingMoves ==
    ASSUME IInv, IInv', NEW o \in Orders, \A q \in Orders : q # o => entry'[q] = entry[q]
    PROVE  /\ PendingSum \in Int
           /\ PendingSum' = PendingSum - Part(entry[o].status, {"PENDING"}, entry[o].net)
                                       + Part(entry'[o].status, {"PENDING"}, entry'[o].net)
<1> DEFINE S == {q \in Orders : entry[q].status \in {"PENDING"}}
           T == {q \in Orders : entry'[q].status \in {"PENDING"}}
<1>1. PendingSum = PaidBy(S) /\ PendingSum' = SumFunctionOnSet(NetOf', T)
  BY DEF PendingSum, EntriesIn, PaidBy
<1>2. /\ S \in SUBSET Orders /\ T \in SUBSET Orders
      /\ o \in S <=> entry[o].status \in {"PENDING"}
      /\ o \in T <=> entry'[o].status \in {"PENDING"}
      /\ \A q \in Orders : q # o => (q \in T <=> q \in S)
  OBVIOUS
<1> HIDE DEF S, T
<1>3. PICK X \in SUBSET Orders, Y \in SUBSET Orders : X = S /\ Y = T
  BY <1>2
<1>4. \A q \in Orders : q # o => entry'[q].net = entry[q].net /\ (q \in Y <=> q \in X)
  BY <1>2, <1>3
<1>5. /\ PaidBy(X) \in Int
      /\ SumFunctionOnSet(NetOf', Y)
           = PaidBy(X) - Part(o, X, entry[o].net) + Part(o, Y, entry'[o].net)
  BY <1>4, PaidByMoves
<1>6. /\ Part(o, X, entry[o].net) = Part(entry[o].status, {"PENDING"}, entry[o].net)
      /\ Part(o, Y, entry'[o].net) = Part(entry'[o].status, {"PENDING"}, entry'[o].net)
  BY <1>2, <1>3 DEF Part
<1> QED  BY <1>1, <1>3, <1>5, <1>6

(* No entry changes its value, or becomes pending or stops being so. *)
LEMMA PendingStays ==
    ASSUME \A o \in Orders : /\ entry'[o].net = entry[o].net
                             /\ entry'[o].status = "PENDING" <=> entry[o].status = "PENDING"
    PROVE  PendingSum' = PendingSum
<1>1. NetOf' = NetOf
  BY DEF NetOf
<1>2. EntriesIn({"PENDING"})' = EntriesIn({"PENDING"})
  BY DEF EntriesIn
<1> QED  BY <1>1, <1>2 DEF PendingSum, PaidBy

LEMMA SumsAre ==
    ASSUME LedgerInv, Sums
    PROVE  /\ wallet.pending + wallet.available + PayoutsIn({"APPROVED", "COMPLETED"})
                = wallet.earned
           /\ (\A o \in Orders : claim[o] # "PAID_OUT") => wallet.pending = PendingSum
           /\ wallet.paidOut = PayoutsIn({"COMPLETED"})
           /\ PayoutsIn({"APPROVED", "COMPLETED"}) \in Int /\ PayoutsIn({"COMPLETED"}) \in Int
BY PayoutsNumber DEF LedgerInv, Sums, NothingLeaks, PendingIsEntries, PaidOutIsPayouts, PendingSum

(* The payouts and the balances stay as they are. *)
LEMMA SumsStay ==
    ASSUME Sums, UNCHANGED <<entry, wallet, payout>>,
           \A o \in Orders : claim[o] = "PAID_OUT" => claim'[o] = "PAID_OUT"
    PROVE  Sums'
<1>1. PayoutsIn({"APPROVED", "COMPLETED"})' = PayoutsIn({"APPROVED", "COMPLETED"})
      /\ PayoutsIn({"COMPLETED"})' = PayoutsIn({"COMPLETED"})
  BY DEF PayoutsIn, AmountOf
<1>2. PendingSum' = PendingSum
  BY PendingStays
<1> QED  BY <1>1, <1>2 DEF Sums, NothingLeaks, PendingIsEntries, PaidOutIsPayouts, PendingSum

LEMMA CreateLedgerInCalm ==
    ASSUME BooksInv, IInv', NEW o \in Orders, CreateLedger(o), calm
    PROVE  Handlers' /\ Sums'
<1> DEFINE e == [status |-> "PENDING", net |-> Net[o], payout |-> None]
<1>1. /\ entry[o].status = "NONE" /\ entry' = [entry EXCEPT ![o] = e]
      /\ wallet' = [wallet EXCEPT !.pending = wallet.pending + Net[o],
                                  !.earned = wallet.earned + Net[o]]
      /\ UNCHANGED <<claim, payout, record, success, journal, job>>
  BY DEF CreateLedger
<1>2. /\ entry'[o] = e /\ e.net = Net[o] /\ e.status = "PENDING"
      /\ \A q \in Orders : q # o => entry'[q] = entry[q]
  BY <1>1, Types DEF BooksInv, LedgerInv
<1> HIDE DEF e
<1>3. /\ wallet'.pending = wallet.pending + Net[o] /\ wallet'.earned = wallet.earned + Net[o]
      /\ wallet'.available = wallet.available /\ wallet'.paidOut = wallet.paidOut
  BY <1>1, Types DEF BooksInv, LedgerInv, Wallet
<1>4. Net[o] \in Int
  BY AmountAssumption
<1>5. LedgerInv /\ IInv /\ Sums
  BY DEF BooksInv, CalmInv, LedgerInv
<1>6. PendingSum \in Int /\ PendingSum' = PendingSum + Net[o]
  <2>1. /\ PendingSum \in Int
        /\ PendingSum' = PendingSum - Part(entry[o].status, {"PENDING"}, entry[o].net)
                                    + Part(entry'[o].status, {"PENDING"}, entry'[o].net)
    BY <1>2, <1>5, PendingMoves
  <2>2. /\ Part(entry[o].status, {"PENDING"}, entry[o].net) = 0
        /\ Part(entry'[o].status, {"PENDING"}, entry'[o].net) = Net[o]
    BY <1>1, <1>2 DEF Part
  <2> QED  BY <1>4, <2>1, <2>2
<1>7. \A S : PayoutsIn(S)' = PayoutsIn(S)
  BY <1>1 DEF PayoutsIn, AmountOf
<1>8. Sums'
  <2>1. NothingLeaks'
    <3>1. wallet'.pending + wallet'.available + PayoutsIn({"APPROVED", "COMPLETED"})
             = wallet'.earned
      BY <1>3, <1>4, <1>5, SumsAre, Types
    <3> QED  BY <1>7, <3>1 DEF NothingLeaks
  <2>2. PendingIsEntries'
    BY <1>1, <1>3, <1>5, <1>6, SumsAre DEF PendingIsEntries, PendingSum
  <2>3. PaidOutIsPayouts'
    BY <1>3, <1>5, <1>7, SumsAre DEF PaidOutIsPayouts
  <2> QED  BY <2>1, <2>2, <2>3 DEF Sums
<1>9. Handlers'
  <2>1. OneHandler /\ (Quiet => Agree(NoJob)) /\ \A a \in Actors : job[a] # NoJob => Agree(job[a])
    BY DEF BooksInv, CalmInv, Handlers
  <2>2. Agree(NoJob) => Agree(NoJob)'
    <3>1. NoJob.at = "idle"
      BY NoJobIsNoClawback
    <3> QED  BY <1>1, <3>1 DEF Agree, Current, PayoutOK
  <2>3. ASSUME NEW a \in Actors, Agree(job[a]) PROVE Agree(job[a])'
    <3>1. job[a].at \in {"settle", "clawback"} => job[a].o \in Orders /\ job[a].o # o
      BY <1>1, <2>3, JobTypes DEF BooksInv, LedgerInv, Agree, Current
    <3>2. job[a].at \in {"settle", "clawback"} => entry'[job[a].o] = entry[job[a].o]
      BY <1>2, <3>1
    <3>3. Current(job[a])'
      BY <1>1, <2>3, <3>2 DEF Agree, Current
    <3>4. \A p \in Payouts : PayoutOK(p, job[a])'
      BY <1>1, <2>3 DEF Agree, PayoutOK
    <3> QED  BY <3>3, <3>4 DEF Agree
  <2> QED  BY <1>1, <2>1, <2>2, <2>3 DEF Handlers, OneHandler, Quiet
<1> QED  BY <1>8, <1>9

(* Handler a acts, and another step of it may follow. *)
LEMMA GoesAlone ==
    ASSUME BooksInv, NEW a \in Actors, NEW j, Go(a, j), job[a].at # "idle", calm'
    PROVE  Alone(a) /\ Agree(job[a]) /\ Sums /\ job' = [job EXCEPT ![a] = j]
<1>1. calm /\ job[a] # NoJob /\ job' = [job EXCEPT ![a] = j]
  BY NoJobIsNoClawback DEF Go
<1> QED  BY <1>1, ActsAlone

LEMMA NoJobPosts == ~Posts(NoJob) /\ Current(NoJob) /\ Current(NoJob)'
BY NoJobIsNoClawback DEF Posts, Current

(* Handler a ends without having changed a payout. *)
LEMMA EndsWell ==
    ASSUME BooksInv, NEW a \in Actors, End(a), Alone(a), Agree(job[a]), ~Posts(job[a]),
           UNCHANGED <<payout, record, success, journal>>
    PROVE  Handlers'
<1>1. PICK i : i = job[a]
  OBVIOUS
<1>2. \A p \in Payouts : PayoutOK(p, NoJob)'
  BY <1>1, NoJobPosts, PayoutsStay
<1>3. Agree(NoJob)'
  BY <1>2, NoJobPosts DEF Agree
<1> QED  BY <1>3, HandlersGoOn DEF End, Go

LEMMA SettleInCalm ==
    ASSUME BooksInv, IInv', NEW a \in Actors, Settle(a), calm'
    PROVE  Handlers' /\ Sums'
<1> DEFINE o == job[a].o  n == job[a].n
<1>1. job[a].at = "settle" /\ End(a) /\ UNCHANGED <<claim, payout, record, success, journal>>
  BY DEF Settle
<1>2. Alone(a) /\ Agree(job[a]) /\ Sums
  BY <1>1, GoesAlone DEF End
<1>3. o \in Orders /\ n \in Int /\ entry[o].status = "PENDING" /\ n = entry[o].net
  BY <1>1, <1>2, JobTypes DEF Agree, Current, BooksInv, LedgerInv
<1>4. /\ entry' = [entry EXCEPT ![o].status = "SETTLED"]
      /\ wallet' = [wallet EXCEPT !.pending = wallet.pending - n,
                                  !.available = wallet.available + n]
  BY <1>3 DEF Settle
<1>5. entry'[o].status = "SETTLED" /\ \A q \in Orders : q # o => entry'[q] = entry[q]
  BY <1>3, <1>4, Types DEF BooksInv, LedgerInv, Entry
<1>6. /\ wallet'.pending = wallet.pending - n /\ wallet'.available = wallet.available + n
      /\ wallet'.earned = wallet.earned /\ wallet'.paidOut = wallet.paidOut
  BY <1>4, Types DEF BooksInv, LedgerInv, Wallet
<1> HIDE DEF o, n
<1>7. PendingSum \in Int /\ PendingSum' = PendingSum - n
  <2>1. /\ PendingSum \in Int
        /\ PendingSum' = PendingSum - Part(entry[o].status, {"PENDING"}, entry[o].net)
                                    + Part(entry'[o].status, {"PENDING"}, entry'[o].net)
    BY <1>3, <1>5, PendingMoves DEF BooksInv, LedgerInv
  <2>2. /\ Part(entry[o].status, {"PENDING"}, entry[o].net) = n
        /\ Part(entry'[o].status, {"PENDING"}, entry'[o].net) = 0
    BY <1>3, <1>5 DEF Part
  <2> QED  BY <1>3, <2>1, <2>2
<1>8. \A S : PayoutsIn(S)' = PayoutsIn(S)
  BY <1>1 DEF PayoutsIn, AmountOf
<1>9. Sums'
  <2>1. NothingLeaks'
    <3>1. wallet'.pending + wallet'.available + PayoutsIn({"APPROVED", "COMPLETED"})
             = wallet'.earned
      BY <1>2, <1>3, <1>6, SumsAre, Types DEF BooksInv, LedgerInv
    <3> QED  BY <1>8, <3>1 DEF NothingLeaks
  <2>2. PendingIsEntries'
    BY <1>1, <1>2, <1>6, <1>7, SumsAre DEF PendingIsEntries, PendingSum, BooksInv
  <2>3. PaidOutIsPayouts'
    BY <1>2, <1>6, <1>8, SumsAre DEF PaidOutIsPayouts, BooksInv
  <2> QED  BY <2>1, <2>2, <2>3 DEF Sums
<1>10. Handlers'
  BY <1>1, <1>2, EndsWell DEF Posts
<1> QED  BY <1>9, <1>10

LEMMA ClawbackInCalm ==
    ASSUME BooksInv, IInv', NEW a \in Actors, Clawback(a), calm'
    PROVE  Handlers' /\ Sums'
<1> DEFINE o == job[a].o  n == job[a].n  s == job[a].seen
<1>1. /\ job[a].at = "clawback" /\ End(a)
      /\ entry' = [entry EXCEPT ![o].net = entry[o].net - n]
      /\ UNCHANGED <<claim, payout, record, success, journal>>
  BY DEF Clawback
<1>2. Alone(a) /\ Agree(job[a]) /\ Sums
  BY <1>1, GoesAlone DEF End
<1>3. /\ o \in Orders /\ n \in Int /\ s = entry[o].status /\ claim[o] = s
      /\ s \in {"PENDING", "SETTLED", "PAID_OUT"}
  BY <1>1, <1>2, JobTypes DEF Agree, Current, BooksInv, LedgerInv, EntryStatus
<1>4. /\ entry'[o].net = entry[o].net - n /\ entry[o].net \in Int
      /\ entry'[o].status = s /\ \A q \in Orders : q # o => entry'[q] = entry[q]
  BY <1>1, <1>3, Types DEF BooksInv, LedgerInv, Entry
<1>5. /\ s = "SETTLED" => /\ wallet'.pending = wallet.pending
                          /\ wallet'.available = wallet.available - n
      /\ s # "SETTLED" => /\ wallet'.pending = wallet.pending - n
                          /\ wallet'.available = wallet.available
      /\ wallet'.earned = wallet.earned - n /\ wallet'.paidOut = wallet.paidOut
  <2>1. CASE s = "SETTLED"
    <3>1. wallet' = [wallet EXCEPT !.available = wallet.available - n,
                                   !.earned = wallet.earned - n]
      BY <2>1 DEF Clawback
    <3> QED  BY <2>1, <3>1, Types DEF BooksInv, LedgerInv, Wallet
  <2>2. CASE s # "SETTLED"
    <3>1. wallet' = [wallet EXCEPT !.pending = wallet.pending - n,
                                   !.earned = wallet.earned - n]
      BY <2>2 DEF Clawback
    <3> QED  BY <2>2, <3>1, Types DEF BooksInv, LedgerInv, Wallet
  <2> QED  BY <2>1, <2>2
<1> HIDE DEF o, n, s
<1>6. /\ PendingSum \in Int
      /\ s = "PENDING" => PendingSum' = PendingSum - n
      /\ s # "PENDING" => PendingSum' = PendingSum
  <2>1. /\ PendingSum \in Int
        /\ PendingSum' = PendingSum - Part(entry[o].status, {"PENDING"}, entry[o].net)
                                    + Part(entry'[o].status, {"PENDING"}, entry'[o].net)
    BY <1>3, <1>4, PendingMoves DEF BooksInv, LedgerInv
  <2>2. CASE s = "PENDING"
    <3>1. /\ Part(entry[o].status, {"PENDING"}, entry[o].net) = entry[o].net
          /\ Part(entry'[o].status, {"PENDING"}, entry'[o].net) = entry[o].net - n
      BY <1>3, <1>4, <2>2 DEF Part
    <3>2. PendingSum' = PendingSum - n
      BY <1>3, <1>4, <2>1, <3>1
    <3> QED  BY <2>1, <2>2, <3>2
  <2>3. CASE s # "PENDING"
    <3>1. /\ Part(entry[o].status, {"PENDING"}, entry[o].net) = 0
          /\ Part(entry'[o].status, {"PENDING"}, entry'[o].net) = 0
      BY <1>3, <1>4, <2>3 DEF Part
    <3>2. PendingSum' = PendingSum
      BY <2>1, <3>1
    <3> QED  BY <2>1, <2>3, <3>2
  <2> QED  BY <2>2, <2>3
<1>7. \A S : PayoutsIn(S)' = PayoutsIn(S)
  BY <1>1 DEF PayoutsIn, AmountOf
<1>8. Sums'
  <2>1. NothingLeaks'
    <3>1. wallet'.pending + wallet'.available = wallet.pending + wallet.available - n
      <4>1. /\ wallet.pending \in Int /\ wallet.available \in Int
        BY Types DEF BooksInv, LedgerInv
      <4>2. CASE s = "SETTLED"
        BY <1>3, <1>5, <4>1, <4>2
      <4>3. CASE s # "SETTLED"
        BY <1>3, <1>5, <4>1, <4>3
      <4> QED  BY <4>2, <4>3
    <3>2. /\ wallet.pending \in Int /\ wallet.available \in Int /\ wallet.earned \in Int
          /\ wallet'.pending \in Int /\ wallet'.available \in Int
      BY Types DEF BooksInv, LedgerInv, IInv, TypeOK, Wallet
    <3>3. wallet'.pending + wallet'.available + PayoutsIn({"APPROVED", "COMPLETED"})
             = wallet'.earned
      BY <1>2, <1>3, <1>5, <3>1, <3>2, SumsAre DEF BooksInv
    <3> QED  BY <1>7, <3>3 DEF NothingLeaks
  <2>2. PendingIsEntries'
    <3>1. CASE s = "PAID_OUT"
      BY <1>1, <1>3, <3>1 DEF PendingIsEntries
    <3>2. CASE s # "PAID_OUT"
      <4>1. (\A q \in Orders : claim[q] # "PAID_OUT") => wallet'.pending = PendingSum'
        BY <1>2, <1>3, <1>5, <1>6, <3>2, SumsAre DEF BooksInv
      <4> QED  BY <1>1, <4>1 DEF PendingIsEntries, PendingSum
    <3> QED  BY <3>1, <3>2
  <2>3. PaidOutIsPayouts'
    BY <1>2, <1>5, <1>7, SumsAre DEF PaidOutIsPayouts, BooksInv
  <2> QED  BY <2>1, <2>2, <2>3 DEF Sums
<1>9. Handlers'
  BY <1>1, <1>2, EndsWell DEF Posts
<1> QED  BY <1>8, <1>9

(* A step that leaves entries and claims alone, and moves m out of the     *)
(* available balance and k into what was paid out.                         *)
LEMMA PayoutsMoveSums ==
    ASSUME LedgerInv, IInv', Sums, NEW p \in Payouts, NEW m \in Int, NEW k \in Int,
           \A q \in Payouts : q # p => payout'[q] = payout[q],
           Part(payout'[p].status, {"APPROVED", "COMPLETED"}, payout'[p].amount)
             = Part(payout[p].status, {"APPROVED", "COMPLETED"}, payout[p].amount) + m,
           Part(payout'[p].status, {"COMPLETED"}, payout'[p].amount)
             = Part(payout[p].status, {"COMPLETED"}, payout[p].amount) + k,
           wallet'.pending = wallet.pending, wallet'.available = wallet.available - m,
           wallet'.earned = wallet.earned, wallet'.paidOut = wallet.paidOut + k,
           PendingSum' = PendingSum, UNCHANGED claim
    PROVE  Sums'
<1> DEFINE A == {"APPROVED", "COMPLETED"}
           C == {"COMPLETED"}
<1>1. /\ PayoutsIn(A) \in Int /\ PayoutsIn(C) \in Int
      /\ PayoutsIn(A)' = PayoutsIn(A) - Part(payout[p].status, A, payout[p].amount)
                                      + Part(payout'[p].status, A, payout'[p].amount)
      /\ PayoutsIn(C)' = PayoutsIn(C) - Part(payout[p].status, C, payout[p].amount)
                                      + Part(payout'[p].status, C, payout'[p].amount)
  BY PayoutMoves DEF LedgerInv
<1>2. /\ Part(payout[p].status, A, payout[p].amount) \in Int
      /\ Part(payout[p].status, C, payout[p].amount) \in Int
  BY Types DEF Part, LedgerInv
<1>3. PayoutsIn(A)' = PayoutsIn(A) + m /\ PayoutsIn(C)' = PayoutsIn(C) + k
  <2> HIDE DEF A, C
  <2>1. /\ Part(payout'[p].status, A, payout'[p].amount)
             = Part(payout[p].status, A, payout[p].amount) + m
        /\ Part(payout'[p].status, C, payout'[p].amount)
             = Part(payout[p].status, C, payout[p].amount) + k
    BY DEF A, C
  <2> QED  BY <1>1, <1>2, <2>1
<1>4. /\ wallet.pending + wallet.available + PayoutsIn(A) = wallet.earned
      /\ (\A o \in Orders : claim[o] # "PAID_OUT") => wallet.pending = PendingSum
      /\ wallet.paidOut = PayoutsIn(C)
      /\ wallet.pending \in Int /\ wallet.available \in Int
  BY SumsAre, Types DEF LedgerInv
<1>5. NothingLeaks'
  <2>1. wallet'.pending + wallet'.available + PayoutsIn(A)' = wallet'.earned
    <3> HIDE DEF A, C
    <3> QED  BY <1>1, <1>3, <1>4
  <2> QED  BY <2>1 DEF NothingLeaks
<1>6. PendingIsEntries'
  BY <1>4 DEF PendingIsEntries, PendingSum
<1>7. PaidOutIsPayouts'
  <2>1. wallet'.paidOut = PayoutsIn(C)'
    BY <1>3, <1>4
  <2> QED  BY <2>1 DEF PaidOutIsPayouts
<1> QED  BY <1>5, <1>6, <1>7 DEF Sums

(* Payout p changes its status, not to or from COMPLETED, and handler a ends. *)
LEMMA PayoutEndsWell ==
    ASSUME BooksInv, NEW a \in Actors, End(a), Alone(a), Agree(job[a]), ~Posts(job[a]),
           UNCHANGED <<record, success, journal>>,
           \A q \in Payouts : payout'[q].status = "COMPLETED" <=> payout[q].status = "COMPLETED"
    PROVE  Handlers'
<1>1. PICK i : i = job[a]
  OBVIOUS
<1>2. \A p \in Payouts : PayoutOK(p, NoJob)'
  BY <1>1, NoJobPosts DEF Agree, PayoutOK, Posts
<1>3. Agree(NoJob)'
  BY <1>2, NoJobPosts DEF Agree
<1> QED  BY <1>3, HandlersGoOn DEF End, Go

LEMMA CreatePayoutRequestInCalm ==
    ASSUME BooksInv, IInv', NEW a \in Actors, CreatePayoutRequest(a), calm'
    PROVE  Handlers' /\ Sums'
<1>1. job[a].at = "create" /\ End(a) /\ UNCHANGED <<entry, claim, wallet, record, success, journal>>
  BY DEF CreatePayoutRequest
<1>2. Alone(a) /\ Agree(job[a]) /\ Sums
  BY <1>1, GoesAlone DEF End
<1>3. PICK p \in Payouts :
        /\ payout[p].status = "NONE"
        /\ payout' = [payout EXCEPT ![p] = [status |-> "PENDING", amount |-> job[a].n]]
  BY DEF CreatePayoutRequest
<1>4. payout'[p].status = "PENDING" /\ \A q \in Payouts : q # p => payout'[q] = payout[q]
  BY <1>3, Types DEF BooksInv, LedgerInv
<1>5. Handlers'
  BY <1>1, <1>2, <1>3, <1>4, PayoutEndsWell DEF Posts
<1>6. Sums'
  <2>1. /\ Part(payout'[p].status, {"APPROVED", "COMPLETED"}, payout'[p].amount) = 0
        /\ Part(payout[p].status, {"APPROVED", "COMPLETED"}, payout[p].amount) = 0
        /\ Part(payout'[p].status, {"COMPLETED"}, payout'[p].amount) = 0
        /\ Part(payout[p].status, {"COMPLETED"}, payout[p].amount) = 0
    BY <1>3, <1>4 DEF Part
  <2>2. wallet'.available = wallet.available - 0 /\ wallet'.paidOut = wallet.paidOut + 0
    BY <1>1, Types DEF BooksInv, LedgerInv
  <2>3. PendingSum' = PendingSum
    BY <1>1, PendingStays
  <2> QED  BY <1>1, <1>2, <1>4, <2>1, <2>2, <2>3, PayoutsMoveSums DEF BooksInv
<1> QED  BY <1>5, <1>6

LEMMA ApprovePayoutRequestInCalm ==
    ASSUME BooksInv, IInv', NEW a \in Actors, ApprovePayoutRequest(a), calm'
    PROVE  Handlers' /\ Sums'
<1> DEFINE p == job[a].p  n == job[a].n
<1>1. /\ job[a].at = "approve" /\ End(a) /\ UNCHANGED <<entry, claim, record, success, journal>>
      /\ payout' = [payout EXCEPT ![p].status = "APPROVED"]
      /\ wallet' = [wallet EXCEPT !.available = wallet.available - n]
  BY DEF ApprovePayoutRequest
<1>2. Alone(a) /\ Agree(job[a]) /\ Sums
  BY <1>1, GoesAlone DEF End
<1>3. p \in Payouts /\ n \in Int /\ payout[p].status = "PENDING" /\ n = payout[p].amount
  BY <1>1, <1>2, JobTypes DEF Agree, Current, BooksInv, LedgerInv
<1>4. /\ payout'[p].status = "APPROVED" /\ payout'[p].amount = n
      /\ \A q \in Payouts : q # p => payout'[q] = payout[q]
  BY <1>1, <1>3, Types DEF BooksInv, LedgerInv, Payout
<1>5. /\ wallet'.pending = wallet.pending /\ wallet'.available = wallet.available - n
      /\ wallet'.earned = wallet.earned /\ wallet'.paidOut = wallet.paidOut
  BY <1>1, Types DEF BooksInv, LedgerInv, Wallet
<1>6. Handlers'
  BY <1>1, <1>2, <1>3, <1>4, PayoutEndsWell DEF Posts
<1> HIDE DEF p, n
<1>7. Sums'
  <2>1. /\ Part(payout'[p].status, {"APPROVED", "COMPLETED"}, payout'[p].amount) = n
        /\ Part(payout[p].status, {"APPROVED", "COMPLETED"}, payout[p].amount) = 0
        /\ Part(payout'[p].status, {"COMPLETED"}, payout'[p].amount) = 0
        /\ Part(payout[p].status, {"COMPLETED"}, payout[p].amount) = 0
    BY <1>3, <1>4 DEF Part
  <2>2. wallet'.paidOut = wallet.paidOut + 0
    BY <1>5, Types DEF BooksInv, LedgerInv
  <2>3. PendingSum' = PendingSum
    BY <1>1, PendingStays
  <2> QED  BY <1>1, <1>2, <1>3, <1>4, <1>5, <2>1, <2>2, <2>3, PayoutsMoveSums DEF BooksInv
<1> QED  BY <1>6, <1>7

LEMMA RejectPayoutRequestInCalm ==
    ASSUME BooksInv, IInv', NEW a \in Actors, RejectPayoutRequest(a), calm'
    PROVE  Handlers' /\ Sums'
<1> DEFINE p == job[a].p
<1>1. /\ job[a].at = "reject" /\ End(a)
      /\ UNCHANGED <<entry, claim, wallet, record, success, journal>>
      /\ payout' = [payout EXCEPT ![p].status = "REJECTED"]
  BY DEF RejectPayoutRequest
<1>2. Alone(a) /\ Agree(job[a]) /\ Sums
  BY <1>1, GoesAlone DEF End
<1>3. p \in Payouts /\ payout[p].status = "PENDING"
  BY <1>1, <1>2, JobTypes DEF Agree, Current, BooksInv, LedgerInv
<1>4. payout'[p].status = "REJECTED" /\ \A q \in Payouts : q # p => payout'[q] = payout[q]
  BY <1>1, <1>3, Types DEF BooksInv, LedgerInv, Payout
<1>5. Handlers'
  BY <1>1, <1>2, <1>3, <1>4, PayoutEndsWell DEF Posts
<1> HIDE DEF p
<1>6. Sums'
  <2>1. /\ Part(payout'[p].status, {"APPROVED", "COMPLETED"}, payout'[p].amount) = 0
        /\ Part(payout[p].status, {"APPROVED", "COMPLETED"}, payout[p].amount) = 0
        /\ Part(payout'[p].status, {"COMPLETED"}, payout'[p].amount) = 0
        /\ Part(payout[p].status, {"COMPLETED"}, payout[p].amount) = 0
    BY <1>3, <1>4 DEF Part
  <2>2. wallet'.available = wallet.available - 0 /\ wallet'.paidOut = wallet.paidOut + 0
    BY <1>1, Types DEF BooksInv, LedgerInv
  <2>3. PendingSum' = PendingSum
    BY <1>1, PendingStays
  <2> QED  BY <1>1, <1>2, <1>3, <1>4, <2>1, <2>2, <2>3, PayoutsMoveSums DEF BooksInv
<1> QED  BY <1>5, <1>6

LEMMA OnPayoutIsCurrent ==
    ASSUME NEW s, s \in {"create", "transfer", "complete"}, NEW p, NEW n
    PROVE  ~Posts(OnPayout(s, p, n)) /\ Current(OnPayout(s, p, n))'
BY OnPayoutIs DEF Posts, Current

LEMMA CreateTransferInCalm ==
    ASSUME BooksInv, NEW a \in Actors, CreateTransfer(a), calm'
    PROVE  Handlers' /\ Sums'
<1>1. job[a].at = "transfer" /\ UNCHANGED <<entry, claim, wallet, payout, record, success, journal>>
  BY DEF CreateTransfer
<1>2. PICK j : Go(a, j) /\ ~Posts(j) /\ Current(j)'
  <2>1. CASE Go(a, NoJob)
    BY <2>1, NoJobPosts
  <2>2. CASE \E n : Go(a, OnPayout("complete", job[a].p, n))
    <3>1. PICK n, p : Go(a, OnPayout("complete", p, n))
      BY <2>2
    <3> QED  BY <3>1, OnPayoutIsCurrent
  <2> QED  BY <2>1, <2>2 DEF CreateTransfer, End
<1>3. Alone(a) /\ Agree(job[a]) /\ Sums
  BY <1>1, <1>2, GoesAlone
<1>4. PICK i : i = job[a]
  OBVIOUS
<1>5. \A p \in Payouts : PayoutOK(p, j)'
  BY <1>1, <1>2, <1>3, <1>4, PayoutsStay DEF Posts
<1>6. Handlers'
  BY <1>2, <1>3, <1>5, HandlersGoOn DEF Agree, Go
<1> QED  BY <1>1, <1>3, <1>6, SumsStay

LEMMA CompletePayoutInCalm ==
    ASSUME BooksInv, IInv', NEW a \in Actors, CompletePayout(a), calm'
    PROVE  Handlers' /\ Sums'
<1>1. job[a].p \in Payouts
  BY JobTypes DEF CompletePayout, BooksInv, LedgerInv
<1> PICK p \in Payouts : p = job[a].p
  BY <1>1
<1>2. job[a].at = "complete" /\ UNCHANGED <<claim, journal>>
  BY DEF CompletePayout
<1>3. CASE payout[p].status = "APPROVED" /\ record[p] = "NONE"
  <2>1. /\ payout' = [payout EXCEPT ![p].status = "COMPLETED"]
        /\ record' = [record EXCEPT ![p] = "COMPLETED"]
        /\ wallet' = [wallet EXCEPT !.paidOut = wallet.paidOut + payout[p].amount]
        /\ Go(a, OnPayout("record", p, 0))
    BY <1>3 DEF CompletePayout
  <2>2. success' = [success EXCEPT ![p] = success[p] \cup {job[a].n}]
    BY <1>3 DEF CompletePayout
  <2>3. PICK E \in Earmarks(payout[job[a].p].amount) :
           entry' = [o \in Orders |->
               IF o \in E THEN [entry[o] EXCEPT !.status = "PAID_OUT", !.payout = job[a].p]
                          ELSE entry[o]]
    BY <1>3 DEF CompletePayout
  <2>4. entry' = [o \in Orders |->
            IF o \in E THEN [entry[o] EXCEPT !.status = "PAID_OUT", !.payout = p]
                       ELSE entry[o]]
    BY <2>3
  <2>5. Alone(a) /\ Agree(job[a]) /\ Sums
    BY <1>2, <2>1, GoesAlone
  <2>6. PICK j : j = OnPayout("record", p, 0)
    OBVIOUS
  <2>7. j.at = "record" /\ j.p = p
    BY <2>6, OnPayoutIs
  <2>8. /\ payout'[p].status = "COMPLETED" /\ payout'[p].amount = payout[p].amount
        /\ \A q \in Payouts : q # p => payout'[q] = payout[q]
    BY <1>2, <2>1, Types DEF BooksInv, LedgerInv, Payout
  <2>9. /\ record'[p] = "COMPLETED" /\ success'[p] = success[p] \cup {job[a].n}
        /\ \A q \in Payouts : q # p => record'[q] = record[q] /\ success'[q] = success[q]
    BY <1>2, <2>1, <2>2 DEF BooksInv, LedgerInv, IInv, TypeOK
  <2>10. /\ wallet'.pending = wallet.pending /\ wallet'.available = wallet.available
        /\ wallet'.earned = wallet.earned
        /\ wallet'.paidOut = wallet.paidOut + payout[p].amount
    BY <2>1, Types DEF BooksInv, LedgerInv, Wallet
  <2>11. PendingSum' = PendingSum
    <3>1. \A o \in E : entry[o].status = "SETTLED"
      BY DEF Earmarks
    <3>2. \A o \in Orders : /\ entry'[o].net = entry[o].net
                            /\ entry'[o].status = "PENDING" <=> entry[o].status = "PENDING"
      BY <2>4, <3>1, Types DEF BooksInv, LedgerInv, Entry
    <3> QED  BY <3>2, PendingStays
  <2>12. Handlers'
    <3>1. Current(j)'
      BY <1>2, <2>7, <2>9 DEF Current
    <3>2. PayoutOK(p, j)'
      <4>1. /\ success[p] = {} /\ "payout" \notin journal[p] /\ "reversal" \notin journal[p]
        BY <1>2, <1>3, <2>5 DEF Agree, PayoutOK
      <4>2. \A i, k \in success'[p] : i = k
        BY <2>9, <4>1
      <4> QED  BY <1>2, <2>7, <2>8, <2>9, <4>1, <4>2 DEF PayoutOK
    <3>3. ASSUME NEW q \in Payouts, q # p PROVE PayoutOK(q, j)'
      <4>1. PayoutOK(q, job[a])
        BY <2>5 DEF Agree
      <4> QED  BY <1>2, <2>7, <2>8, <2>9, <3>3, <4>1 DEF PayoutOK
    <3>4. Agree(j)'
      BY <3>1, <3>2, <3>3 DEF Agree
    <3> QED  BY <2>1, <2>5, <2>6, <3>4, HandlersGoOn DEF Go
  <2>13. Sums'
    <3>1. payout[p].amount \in Int /\ wallet.available \in Int
      BY <1>2, Types DEF BooksInv, LedgerInv
    <3>2. /\ Part(payout'[p].status, {"APPROVED", "COMPLETED"}, payout'[p].amount)
               = payout[p].amount
          /\ Part(payout[p].status, {"APPROVED", "COMPLETED"}, payout[p].amount)
               = payout[p].amount
          /\ Part(payout'[p].status, {"COMPLETED"}, payout'[p].amount) = payout[p].amount
          /\ Part(payout[p].status, {"COMPLETED"}, payout[p].amount) = 0
      BY <1>3, <2>8 DEF Part
    <3>3. wallet'.available = wallet.available - 0
      BY <2>10, <3>1
    <3>4. /\ Part(payout'[p].status, {"APPROVED", "COMPLETED"}, payout'[p].amount)
               = Part(payout[p].status, {"APPROVED", "COMPLETED"}, payout[p].amount) + 0
          /\ Part(payout'[p].status, {"COMPLETED"}, payout'[p].amount)
               = Part(payout[p].status, {"COMPLETED"}, payout[p].amount) + payout[p].amount
      BY <3>1, <3>2
    <3>5. UNCHANGED claim
      BY <1>2
    <3> QED  BY <1>2, <2>5, <2>8, <2>10, <2>11, <3>1, <3>3, <3>4, <3>5, PayoutsMoveSums
             DEF BooksInv
  <2> QED  BY <2>12, <2>13
<1>4. CASE ~(payout[p].status = "APPROVED" /\ record[p] = "NONE")
  <2>1. End(a) /\ UNCHANGED <<entry, claim, wallet, payout, record, success, journal>>
    BY <1>2, <1>4 DEF CompletePayout
  <2>2. Alone(a) /\ Agree(job[a]) /\ Sums
    BY <1>2, <2>1, GoesAlone DEF End
  <2>3. Handlers'
    BY <1>2, <2>1, <2>2, EndsWell DEF Posts
  <2> QED  BY <2>1, <2>2, <2>3, SumsStay
<1> QED  BY <1>3, <1>4

LEMMA PostJournalInCalm ==
    ASSUME BooksInv, NEW a \in Actors, PostJournal(a), calm'
    PROVE  Handlers' /\ Sums'
<1>1. End(a) /\ Posts(job[a]) /\ UNCHANGED <<entry, claim, wallet, payout, record, success>>
  BY DEF PostJournal, Posts
<1>2. Alone(a) /\ Agree(job[a]) /\ Sums
  BY <1>1, GoesAlone DEF End, Posts
<1>3. \A p \in Payouts : PayoutOK(p, NoJob)'
  <2> SUFFICES ASSUME NEW p \in Payouts PROVE PayoutOK(p, NoJob)'
    OBVIOUS
  <2>1. PayoutOK(p, job[a]) /\ Current(job[a]) /\ NoJob.at = "idle"
    BY <1>2, NoJobIsNoClawback DEF Agree
  <2>2. journal \in [Payouts -> SUBSET {"payout", "reversal"}]
    BY DEF BooksInv, LedgerInv, IInv, TypeOK
  <2>3. CASE job[a].at = "record" /\ journal' = [journal EXCEPT ![job[a].p] = @ \cup {"payout"}]
    BY <1>1, <2>1, <2>2, <2>3 DEF PayoutOK, Current
  <2>4. CASE job[a].at = "unrecord" /\ journal' = [journal EXCEPT ![job[a].p] = @ \cup {"reversal"}]
    BY <1>1, <2>1, <2>2, <2>4 DEF PayoutOK, Current
  <2> QED  BY <2>3, <2>4 DEF PostJournal
<1>4. Agree(NoJob)'
  BY <1>3, NoJobPosts DEF Agree
<1>5. Handlers'
  BY <1>1, <1>2, <1>4, HandlersGoOn DEF End, Go
<1> QED  BY <1>1, <1>2, <1>5, SumsStay

LEMMA ReversePayoutInCalm ==
    ASSUME BooksInv, IInv', NEW a \in Actors, ReversePayout(a), calm'
    PROVE  Handlers' /\ Sums'
<1>1. job[a].p \in Payouts
  BY JobTypes DEF ReversePayout, BooksInv, LedgerInv
<1> PICK p \in Payouts : p = job[a].p
  BY <1>1
<1>2. /\ job[a].at = "reverse" /\ UNCHANGED <<claim, journal>>
      /\ payout' = [payout EXCEPT ![p].status = "APPROVED"]
      /\ record' = [record EXCEPT ![p] = "FAILED"]
      /\ wallet' = [wallet EXCEPT !.paidOut = wallet.paidOut - payout[p].amount]
      /\ Go(a, OnPayout("unrecord", p, 0))
  BY DEF ReversePayout
<1>3. success' = [success EXCEPT ![p] = success[p] \ {job[a].n}]
  BY DEF ReversePayout
<1>4. entry' = [o \in Orders |->
             IF entry[o].payout = p THEN [entry[o] EXCEPT !.status = "SETTLED", !.payout = None]
                                    ELSE entry[o]]
  BY DEF ReversePayout
<1>5. Alone(a) /\ Agree(job[a]) /\ Sums
  BY <1>2, GoesAlone
<1>6. PICK j : j = OnPayout("unrecord", p, 0)
  OBVIOUS
<1>7. j.at = "unrecord" /\ j.p = p
  BY <1>6, OnPayoutIs
<1>8. /\ payout'[p].status = "APPROVED" /\ payout'[p].amount = payout[p].amount
      /\ \A q \in Payouts : q # p => payout'[q] = payout[q]
  BY <1>2, Types DEF BooksInv, LedgerInv, Payout
<1>9. /\ record'[p] = "FAILED" /\ success'[p] = success[p] \ {job[a].n}
      /\ \A q \in Payouts : q # p => record'[q] = record[q] /\ success'[q] = success[q]
  BY <1>2, <1>3 DEF BooksInv, LedgerInv, IInv, TypeOK
<1>10. record[p] = "COMPLETED" /\ payout[p].status = "COMPLETED" /\ job[a].n \in success[p]
  BY <1>2, <1>5 DEF Agree, Current, PayoutOK
<1>11. /\ wallet'.pending = wallet.pending /\ wallet'.available = wallet.available
      /\ wallet'.earned = wallet.earned
      /\ wallet'.paidOut = wallet.paidOut - payout[p].amount
  BY <1>2, Types DEF BooksInv, LedgerInv, Wallet
<1>12. PendingSum' = PendingSum
  <2>1. \A o \in Orders : entry[o].payout = p => entry[o].status = "PAID_OUT"
    BY NoneAssumption DEF BooksInv, LedgerInv, IInv, PaidEntriesHaveAPayout
  <2>2. \A o \in Orders : /\ entry'[o].net = entry[o].net
                          /\ entry'[o].status = "PENDING" <=> entry[o].status = "PENDING"
    BY <1>4, <2>1, Types DEF BooksInv, LedgerInv, Entry
  <2> QED  BY <2>2, PendingStays
<1>13. Handlers'
  <2>1. Current(j)'
    BY <1>2, <1>7, <1>9 DEF Current
  <2>2. PayoutOK(p, j)'
    <3>1. /\ \A i, k \in success[p] : i = k
          /\ "payout" \in journal[p] /\ "reversal" \notin journal[p]
      BY <1>2, <1>5, <1>10 DEF Agree, PayoutOK
    <3>2. success'[p] = {}
      BY <1>9, <1>10, <3>1
    <3> QED  BY <1>2, <1>7, <1>8, <1>9, <3>1, <3>2 DEF PayoutOK
  <2>3. ASSUME NEW q \in Payouts, q # p PROVE PayoutOK(q, j)'
    <3>1. PayoutOK(q, job[a])
      BY <1>5 DEF Agree
    <3> QED  BY <1>2, <1>7, <1>8, <1>9, <2>3, <3>1 DEF PayoutOK
  <2>4. Agree(j)'
    BY <2>1, <2>2, <2>3 DEF Agree
  <2> QED  BY <1>2, <1>5, <1>6, <2>4, HandlersGoOn DEF Go
<1>14. Sums'
  <2> DEFINE k == 0 - payout[p].amount
  <2>1. payout[p].amount \in Int /\ wallet.available \in Int /\ wallet.paidOut \in Int
    BY Types DEF BooksInv, LedgerInv
  <2>2. /\ Part(payout'[p].status, {"APPROVED", "COMPLETED"}, payout'[p].amount)
             = payout[p].amount
        /\ Part(payout[p].status, {"APPROVED", "COMPLETED"}, payout[p].amount)
             = payout[p].amount
        /\ Part(payout'[p].status, {"COMPLETED"}, payout'[p].amount) = 0
        /\ Part(payout[p].status, {"COMPLETED"}, payout[p].amount) = payout[p].amount
    BY <1>8, <1>10 DEF Part
  <2>3. k \in Int /\ wallet'.available = wallet.available - 0 /\ wallet'.paidOut = wallet.paidOut + k
    BY <1>11, <2>1
  <2>4. /\ Part(payout'[p].status, {"APPROVED", "COMPLETED"}, payout'[p].amount)
             = Part(payout[p].status, {"APPROVED", "COMPLETED"}, payout[p].amount) + 0
        /\ Part(payout'[p].status, {"COMPLETED"}, payout'[p].amount)
             = Part(payout[p].status, {"COMPLETED"}, payout[p].amount) + k
    BY <2>1, <2>2
  <2>5. UNCHANGED claim
    BY <1>2
  <2> HIDE DEF k
  <2> QED  BY <1>5, <1>8, <1>11, <1>12, <2>3, <2>4, <2>5, PayoutsMoveSums DEF BooksInv
<1> QED  BY <1>13, <1>14

LEMMA BeginInCalm ==
    ASSUME BooksInv, NEW a \in Actors, Begin(a), calm'
    PROVE  Handlers' /\ Sums'
<1>1. ASSUME NEW j, Start(a, j), UNCHANGED <<entry, wallet, payout, record, success, journal>>,
             \A o \in Orders : claim[o] = "PAID_OUT" => claim'[o] = "PAID_OUT",
             ~Posts(j), Agree(NoJob) => Current(j)'
      PROVE  Handlers' /\ Sums'
  <2>1. Alone(a) /\ Agree(NoJob) /\ Sums /\ job' = [job EXCEPT ![a] = j]
    BY <1>1, BeginsAlone
  <2>2. \A p \in Payouts : PayoutOK(p, j)'
    BY <1>1, <2>1, NoJobPosts, PayoutsStay
  <2>3. Agree(j)'
    BY <1>1, <2>1, <2>2 DEF Agree
  <2>4. Handlers'
    BY <2>1, <2>3, HandlersGoOn
  <2> QED  BY <1>1, <2>1, <2>4, SumsStay
<1>2. ASSUME NEW o \in Orders, FindEligible(a, o) PROVE Handlers' /\ Sums'
  <2>1. PICK j : j = OnOrder("settle", o, entry[o].net)
    OBVIOUS
  <2>2. j.at = "settle" /\ j.o = o /\ j.n = entry[o].net
    BY <2>1, OnOrderIs
  <2>3. Start(a, j) /\ entry[o].status = "PENDING" /\ UNCHANGED books
    BY <1>2, <2>1 DEF FindEligible
  <2>4. ~Posts(j) /\ Current(j)'
    BY <2>2, <2>3 DEF Posts, Current, books
  <2> QED  BY <1>1, <2>3, <2>4 DEF books
<1>3. ASSUME NEW o \in Orders, RefundClaim(a, o) PROVE Handlers' /\ Sums'
  <2>1. PICK j : j = [OnOrder("clawback", o, Share[o]) EXCEPT !.seen = entry[o].status]
    OBVIOUS
  <2>2. j.at = "clawback" /\ j.o = o /\ j.seen = entry[o].status
    BY <2>1 DEF OnOrder, NoJob
  <2>3. /\ Start(a, j) /\ entry[o].status # "NONE" /\ claim[o] = "NONE"
        /\ claim' = [claim EXCEPT ![o] = entry[o].status]
        /\ UNCHANGED <<entry, wallet, payout, record, success, journal>>
    BY <1>3, <2>1 DEF RefundClaim
  <2>4. /\ claim'[o] = entry[o].status
        /\ \A q \in Orders : q # o => claim'[q] = claim[q]
    BY <2>3, Types DEF BooksInv, LedgerInv
  <2>5. ~Posts(j) /\ Current(j)'
    BY <2>2, <2>3, <2>4 DEF Posts, Current
  <2> QED  BY <1>1, <2>3, <2>4, <2>5
<1>4. ASSUME NEW s, NEW p, NEW n, Start(a, OnPayout(s, p, n)), UNCHANGED books,
             s \notin {"settle", "clawback", "record", "unrecord"},
             s = "approve" => payout[p].status = "PENDING" /\ n = payout[p].amount,
             s = "reject" => payout[p].status = "PENDING",
             s = "reverse" /\ Agree(NoJob) => record[p] = "COMPLETED" /\ n \in success[p]
      PROVE  Handlers' /\ Sums'
  <2>1. PICK j : j = OnPayout(s, p, n)
    OBVIOUS
  <2>2. j.at = s /\ j.p = p /\ j.n = n
    BY <2>1, OnPayoutIs
  <2>3. Start(a, j)
    BY <1>4, <2>1
  <2>4. ~Posts(j) /\ (Agree(NoJob) => Current(j)')
    BY <1>4, <2>2 DEF Posts, Current, books
  <2> QED  BY <1>1, <1>4, <2>3, <2>4 DEF books
<1>5. CASE \E n \in Amounts : RequestPayout(a, n)
  BY <1>4, <1>5 DEF RequestPayout
<1>6. CASE \E p \in Payouts : CheckApproval(a, p) \/ CheckRejection(a, p) \/ Preflight(a, p)
  BY <1>4, <1>6 DEF CheckApproval, CheckRejection, Preflight
<1>7. CASE \E p \in Payouts : \E i \in 1..Len(transfer[p]) : OnTransferFailed(a, p, i)
  <2>1. PICK p \in Payouts : \E i : OnTransferFailed(a, p, i)
    BY <1>7
  <2>2. PICK i : OnTransferFailed(a, p, i)
    BY <2>1
  <2>3. Agree(NoJob) => record[p] = "COMPLETED" /\ i \in success[p]
    BY <2>2 DEF OnTransferFailed, Agree, PayoutOK
  <2> QED  BY <1>4, <2>3, <2>2 DEF OnTransferFailed
<1> QED  BY <1>2, <1>3, <1>5, <1>6, <1>7 DEF Begin

LEMMA CalmKept == BooksInv /\ LedgerInv' /\ [Next]_vars => CalmInv'
<1> SUFFICES ASSUME BooksInv, LedgerInv', [Next]_vars, calm' PROVE Handlers' /\ Sums'
  BY DEF CalmInv
<1>1. IInv'
  BY DEF LedgerInv
<1>2. CASE UNCHANGED <<entry, claim, wallet, payout, record, success, journal, job, calm>>
  <2>1. Handlers /\ Sums
    BY <1>2 DEF BooksInv, CalmInv
  <2>2. \A j : Agree(j) => Agree(j)'
    BY <1>2 DEF Agree, Current, PayoutOK
  <2>3. OneHandler' /\ (Quiet' => Agree(NoJob)')
    BY <1>2, <2>1, <2>2 DEF Handlers, OneHandler, Quiet
  <2>4. ASSUME NEW a \in Actors, job'[a] # NoJob PROVE Agree(job[a])'
    <3>1. PICK j : j = job[a]
      OBVIOUS
    <3>2. Agree(j)' /\ j = job'[a]
      BY <1>2, <2>1, <2>2, <2>4, <3>1 DEF Handlers
    <3> QED  BY <3>2
  <2>5. Handlers'
    BY <2>3, <2>4 DEF Handlers
  <2> QED  BY <1>2, <2>1, <2>5, SumsStay
<1>3. ASSUME NEW a \in Actors, Step(a) PROVE Handlers' /\ Sums'
  <2>1. ~Crash(a)
    BY DEF Crash
  <2> QED
    BY <1>1, <1>3, <2>1, SettleInCalm, ClawbackInCalm, CreatePayoutRequestInCalm,
       ApprovePayoutRequestInCalm, RejectPayoutRequestInCalm, CreateTransferInCalm,
       CompletePayoutInCalm, PostJournalInCalm, ReversePayoutInCalm DEF Step
<1>4. ASSUME NEW o \in Orders, CreateLedger(o) PROVE Handlers' /\ Sums'
  BY <1>1, <1>4, CreateLedgerInCalm DEF CreateLedger
<1> QED
  BY <1>2, <1>3, <1>4, BeginInCalm DEF Next, vars, TransferFails

LEMMA CalmInitially == Init => CalmInv
<1> SUFFICES ASSUME Init PROVE Handlers /\ Sums
  BY DEF CalmInv
<1>1. IInv /\ LedgerOK
  BY Initially, LedgerInitially
<1>2. \A a \in Actors : job[a] = NoJob
  BY DEF Init
<1>3. Agree(NoJob)
  BY NoJobPosts DEF Init, Agree, PayoutOK
<1>4. Handlers
  BY <1>2, <1>3 DEF Handlers, OneHandler
<1>5. ASSUME NEW S, "NONE" \notin S PROVE PayoutsIn(S) = 0
  <2>1. \A p \in Payouts : payout[p].status = "NONE" /\ payout[p].amount = 0
    BY DEF Init
  <2>2. {p \in Payouts : payout[p].status \in S} = {}
    BY <1>5, <2>1
  <2>3. AmountOf \in [Payouts -> Int]
    BY <2>1 DEF AmountOf
  <2>4. SumFunctionOnSet(AmountOf, {}) = 0
    BY <2>3, SumEmpty
  <2> QED  BY <2>2, <2>4 DEF PayoutsIn
<1>6. PendingSum = 0
  <2>1. EntriesIn({"PENDING"}) = {}
    BY DEF Init, EntriesIn
  <2>2. NetOf \in [Orders -> Int]
    BY <1>1, EntryNumbers
  <2>3. SumFunctionOnSet(NetOf, {}) = 0
    BY <2>2, SumEmpty
  <2> QED  BY <2>1, <2>3 DEF PendingSum, PaidBy
<1>7. /\ wallet.pending = 0 /\ wallet.available = 0 /\ wallet.earned = 0 /\ wallet.paidOut = 0
  BY DEF Init
<1>8. PayoutsIn({"APPROVED", "COMPLETED"}) = 0 /\ PayoutsIn({"COMPLETED"}) = 0
  BY <1>5
<1>9. Sums
  <2>1. wallet.pending + wallet.available + PayoutsIn({"APPROVED", "COMPLETED"}) = wallet.earned
    BY <1>7, <1>8
  <2> QED  BY <1>6, <1>7, <1>8, <2>1
           DEF Sums, NothingLeaks, PendingIsEntries, PaidOutIsPayouts, PendingSum
<1> QED  BY <1>4, <1>9

LEMMA BooksAlways == Spec => []BooksInv
<1>1. Init => BooksInv
  BY Initially, LedgerInitially, CalmInitially DEF BooksInv, LedgerInv
<1>2. BooksInv /\ [Next]_vars => BooksInv'
  BY Inductive, LedgerKept, CalmKept DEF BooksInv, LedgerInv
<1> QED  BY <1>1, <1>2, PTL DEF Spec

(* As long as no handler overlaps another or dies, for any number of       *)
(* orders, payouts and handlers and all amounts: what has been earned is   *)
(* in the wallet or in a payout, every balance is the sum of its rows, and *)
(* payouts, records and journals tell one story (settlement.service.ts).   *)
THEOREM BooksAlwaysAgree == Spec => []BooksAgree
<1>1. BooksInv => BooksAgree
  <2> SUFFICES ASSUME BooksInv, calm
               PROVE  /\ EarnedIsEntries /\ NothingLeaks /\ PendingIsEntries /\ PaidOutIsPayouts
                      /\ RecordsMatch /\ (Quiet => JournalsMatch)
    BY DEF BooksAgree
  <2>1. Handlers /\ Sums /\ EarnedIsEntries
    BY DEF BooksInv, CalmInv, LedgerInv, LedgerOK
  <2>2. RecordsMatch
    BY <2>1 DEF Handlers, Quiet, Agree, PayoutOK, RecordsMatch
  <2>3. Quiet => JournalsMatch
    <3>1. NoJob.at = "idle"
      BY NoJobIsNoClawback
    <3> QED  BY <2>1, <3>1 DEF Handlers, Agree, PayoutOK, JournalsMatch
  <2> QED  BY <2>1, <2>2, <2>3 DEF Sums
<1> QED  BY <1>1, BooksAlways, PTL
=============================================================================
