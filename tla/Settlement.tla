---------------------------- MODULE Settlement ----------------------------
(***************************************************************************)
(* What a merchant has earned and how he is paid:                          *)
(* apps/api/src/modules/settlement/settlement.service.ts, the clawback of  *)
(* order-claim/claim-refund.service.ts and the journals of                 *)
(* finance/ledger.service.ts.                                              *)
(*                                                                         *)
(* A delivered order makes a ledger entry and fills the merchant's pending *)
(* balance; the hourly job moves it to the available balance; the merchant *)
(* asks for a payout, an administrator approves it (which debits the       *)
(* balance) and processes it, by a Razorpay transfer or by hand; Razorpay  *)
(* may report later that a transfer has failed, and a claim may take back  *)
(* a share of an order at any time.                                        *)
(*                                                                         *)
(* One merchant is enough: every row belongs to one.  Handlers read and    *)
(* check in one step and write in another; a handler's next step is in     *)
(* `job`.  The transactions run READ COMMITTED, so a check inside one is a *)
(* step of its own too, unless a unique key or a condition in the UPDATE   *)
(* makes check and write one.                                              *)
(***************************************************************************)
EXTENDS Integers, FiniteSets, Sequences, Functions

CONSTANTS Orders,       \* delivered orders of the merchant
          Payouts,      \* payout requests
          None,         \* null
          Actors,       \* requests, jobs and webhooks under way at a time
          Net,          \* Net[o]: what the merchant earns with o
          Share,        \* Share[o]: what a refunded claim takes back of it
          Amounts,      \* amounts the merchant asks for
          MaxTransfers, \* bound: transfers made for one payout
          MaxFaults     \* bound: handlers that overlap another, or die

ASSUME NoneAssumption == None \notin Orders \cup Payouts
ASSUME FinitelyManyRows == IsFiniteSet(Orders) /\ IsFiniteSet(Payouts)
ASSUME AmountAssumption ==
    /\ Net \in [Orders -> Nat] /\ Share \in [Orders -> Nat]
    /\ \A o \in Orders : Share[o] <= Net[o]
    /\ Amounts \subseteq Nat \ {0}
ASSUME BoundAssumption == MaxTransfers \in Nat /\ MaxFaults \in Nat

VARIABLES
    entry,     \* entry[o]: its row of settlement_ledger
    claim,     \* claim[o]: the entry's status its refunded claim has seen
    wallet,    \* the merchant's row of merchant_wallets
    payout,    \* payout[p]: its row of payout_requests
    record,    \* record[p]: status of its row of merchant_payouts
    success,   \* success[p]: transfers its SUCCESS payout_transactions name
    journal,   \* journal[p]: journals posted for it
    transfer,  \* transfer[p]: Razorpay's transfers made for it, oldest first
    job,       \* job[a]: the next step of handler a
    faults,    \* bounded by MaxFaults
    calm       \* history: no handler overlapped another or died

vars == <<entry, claim, wallet, payout, record, success, journal, transfer, job, faults, calm>>
books == <<entry, claim, wallet, payout, record, success, journal, transfer>>

EntryStatus == {"NONE", "PENDING", "SETTLED", "PAID_OUT"}
PayoutStatus == {"NONE", "PENDING", "APPROVED", "REJECTED", "COMPLETED"}
Steps == {"idle", "settle", "clawback", "create", "approve", "reject", "transfer",
          "complete", "record", "reverse", "unrecord"}

Entry == [status : EntryStatus, net : Int, payout : Payouts \cup {None}]
Payout == [status : PayoutStatus, amount : Nat]
Wallet == [pending : Int, available : Int, earned : Int, paidOut : Int]
(* n is an amount or the number of a transfer (0: paid by hand). *)
Job == [at : Steps, o : Orders \cup {None}, p : Payouts \cup {None}, n : Int, seen : EntryStatus]

NoJob == [at |-> "idle", o |-> None, p |-> None, n |-> 0, seen |-> "NONE"]
OnOrder(step, o, n) == [NoJob EXCEPT !.at = step, !.o = o, !.n = n]
OnPayout(step, p, n) == [NoJob EXCEPT !.at = step, !.p = p, !.n = n]

TypeOK ==
    /\ entry \in [Orders -> Entry]
    /\ claim \in [Orders -> EntryStatus]
    /\ wallet \in Wallet
    /\ payout \in [Payouts -> Payout]
    /\ record \in [Payouts -> {"NONE", "COMPLETED", "FAILED"}]
    /\ success \in [Payouts -> SUBSET (0..MaxTransfers)]
    /\ journal \in [Payouts -> SUBSET {"payout", "reversal"}]
    /\ transfer \in [Payouts -> Seq({"sent", "failed"})]
    /\ job \in [Actors -> Job]
    /\ faults \in 0..MaxFaults
    /\ calm \in BOOLEAN

Init ==
    /\ entry = [o \in Orders |-> [status |-> "NONE", net |-> 0, payout |-> None]]
    /\ claim = [o \in Orders |-> "NONE"]
    /\ wallet = [pending |-> 0, available |-> 0, earned |-> 0, paidOut |-> 0]
    /\ payout = [p \in Payouts |-> [status |-> "NONE", amount |-> 0]]
    /\ record = [p \in Payouts |-> "NONE"]
    /\ success = [p \in Payouts |-> {}]
    /\ journal = [p \in Payouts |-> {}]
    /\ transfer = [p \in Payouts |-> <<>>]
    /\ job = [a \in Actors |-> NoJob]
    /\ faults = 0
    /\ calm = TRUE

Quiet == \A a \in Actors : job[a] = NoJob

(* Handler a begins: it has read and checked, and `next` is to be done. *)
Start(a, next) ==
    /\ job[a] = NoJob
    /\ IF Quiet THEN UNCHANGED <<faults, calm>>
                ELSE faults < MaxFaults /\ faults' = faults + 1 /\ calm' = FALSE
    /\ job' = [job EXCEPT ![a] = next]

Go(a, next) == job' = [job EXCEPT ![a] = next] /\ UNCHANGED <<faults, calm>>
End(a) == Go(a, NoJob)

-----------------------------------------------------------------------------
(* Earning *)

(* createLedgerForDeliveredOrder: the entry's unique key takes wallet and  *)
(* entry together, or neither.                                             *)
CreateLedger(o) ==
    /\ entry[o].status = "NONE"
    /\ entry' = [entry EXCEPT ![o] = [status |-> "PENDING", net |-> Net[o], payout |-> None]]
    /\ wallet' = [wallet EXCEPT !.pending = @ + Net[o], !.earned = @ + Net[o]]
    /\ UNCHANGED <<claim, payout, record, success, journal, transfer, job, faults, calm>>

(* processEligibleSettlements lists the entries, with their amounts ... *)
FindEligible(a, o) ==
    /\ entry[o].status = "PENDING"
    /\ Start(a, OnOrder("settle", o, entry[o].net))
    /\ UNCHANGED books

(* Mutant: the pending balance keeps what has become available. *)
Settle_PendingKept(a) ==
    /\ job[a].at = "settle"
    /\ LET o == job[a].o  n == job[a].n IN
       IF entry[o].status = "PENDING"
       THEN /\ entry' = [entry EXCEPT ![o].status = "SETTLED"]
            /\ wallet' = [wallet EXCEPT !.available = @ + n]
       ELSE UNCHANGED <<entry, wallet>>
    /\ End(a)
    /\ UNCHANGED <<claim, payout, record, success, journal, transfer>>

(* ... and settles each if it is still PENDING, with the amount it read. *)
Settle(a) ==
    /\ job[a].at = "settle"
    /\ LET o == job[a].o  n == job[a].n IN
       IF entry[o].status = "PENDING"
       THEN /\ entry' = [entry EXCEPT ![o].status = "SETTLED"]
            /\ wallet' = [wallet EXCEPT !.pending = @ - n, !.available = @ + n]
       ELSE UNCHANGED <<entry, wallet>>
    /\ End(a)
    /\ UNCHANGED <<claim, payout, record, success, journal, transfer>>

(* A claim on the order was refunded; its clawback reads the entry ... *)
RefundClaim(a, o) ==
    /\ claim[o] = "NONE" /\ entry[o].status # "NONE"
    /\ claim' = [claim EXCEPT ![o] = entry[o].status]
    /\ Start(a, [OnOrder("clawback", o, Share[o]) EXCEPT !.seen = entry[o].status])
    /\ UNCHANGED <<entry, wallet, payout, record, success, journal, transfer>>

(* ... and chooses the balance by the status it read. *)
Clawback(a) ==
    /\ job[a].at = "clawback"
    /\ LET o == job[a].o  n == job[a].n IN
       /\ entry' = [entry EXCEPT ![o].net = @ - n]
       /\ wallet' = IF job[a].seen = "SETTLED"
                    THEN [wallet EXCEPT !.available = @ - n, !.earned = @ - n]
                    ELSE [wallet EXCEPT !.pending = @ - n, !.earned = @ - n]
    /\ End(a)
    /\ UNCHANGED <<claim, payout, record, success, journal, transfer>>

-----------------------------------------------------------------------------
(* Payouts *)

Open(p) == payout[p].status \in {"PENDING", "APPROVED"}

RequestPayout(a, n) ==
    /\ \A p \in Payouts : ~Open(p)
    /\ n <= wallet.available
    /\ Start(a, OnPayout("create", None, n))
    /\ UNCHANGED books

(* Mutant: the request asks for what would stay in the wallet. *)
CreatePayoutRequest_Remainder(a) ==
    /\ job[a].at = "create"
    /\ \E p \in Payouts :
          /\ payout[p].status = "NONE"
          /\ payout' = [payout EXCEPT
                ![p] = [status |-> "PENDING", amount |-> wallet.available - job[a].n]]
    /\ End(a)
    /\ UNCHANGED <<entry, claim, wallet, record, success, journal, transfer>>

CreatePayoutRequest(a) ==
    /\ job[a].at = "create"
    /\ \E p \in Payouts :
          /\ payout[p].status = "NONE"
          /\ payout' = [payout EXCEPT ![p] = [status |-> "PENDING", amount |-> job[a].n]]
    /\ End(a)
    /\ UNCHANGED <<entry, claim, wallet, record, success, journal, transfer>>

CheckApproval(a, p) ==
    /\ payout[p].status = "PENDING" /\ payout[p].amount <= wallet.available
    /\ Start(a, OnPayout("approve", p, payout[p].amount))
    /\ UNCHANGED books

ApprovePayoutRequest(a) ==
    /\ job[a].at = "approve"
    /\ wallet' = [wallet EXCEPT !.available = @ - job[a].n]
    /\ payout' = [payout EXCEPT ![job[a].p].status = "APPROVED"]
    /\ End(a)
    /\ UNCHANGED <<entry, claim, record, success, journal, transfer>>

CheckRejection(a, p) ==
    /\ payout[p].status = "PENDING"
    /\ Start(a, OnPayout("reject", p, 0))
    /\ UNCHANGED books

RejectPayoutRequest(a) ==
    /\ job[a].at = "reject"
    /\ payout' = [payout EXCEPT ![job[a].p].status = "REJECTED"]
    /\ End(a)
    /\ UNCHANGED <<entry, claim, wallet, record, success, journal, transfer>>

(* processPayoutRequest: the preflight read; whether the merchant has a    *)
(* linked account decides between a transfer and a payment by hand.        *)
Preflight(a, p) ==
    /\ payout[p].status = "APPROVED"
    /\ \E step \in {"transfer", "complete"} : Start(a, OnPayout(step, p, 0))
    /\ UNCHANGED books

(* The money moves before the transaction; a failure leaves it APPROVED. *)
CreateTransfer(a) ==
    /\ job[a].at = "transfer"
    /\ LET p == job[a].p IN
       \/ /\ Len(transfer[p]) < MaxTransfers
          /\ transfer' = [transfer EXCEPT ![p] = Append(@, "sent")]
          /\ Go(a, OnPayout("complete", p, Len(transfer[p]) + 1))
       \/ UNCHANGED transfer /\ End(a)
    /\ UNCHANGED <<entry, claim, wallet, payout, record, success, journal>>

NetOf == [o \in Orders |-> entry[o].net]
PaidBy(E) == SumFunctionOnSet(NetOf, E)

(* Mutant: every settled entry is marked. *)
Earmarks_All(n) == {{o \in Orders : entry[o].status = "SETTLED" /\ entry[o].payout = None}}

(* Settled entries in the order they were settled, each that still fits:   *)
(* over all orders, the sets to which nothing can be added.                *)
Earmarks(n) ==
    LET free == {o \in Orders : entry[o].status = "SETTLED" /\ entry[o].payout = None}
    IN  {E \in SUBSET free :
            /\ PaidBy(E) <= n
            /\ \A o \in free \ E : PaidBy(E) = n \/ PaidBy(E) + entry[o].net > n}

(* Mutant: the status is not read again and merchant_payouts is upserted. *)
CompletePayout_Upserts(a) ==
    /\ job[a].at = "complete"
    /\ LET p == job[a].p IN
       /\ payout' = [payout EXCEPT ![p].status = "COMPLETED"]
       /\ success' = [success EXCEPT ![p] = @ \cup {job[a].n}]
       /\ wallet' = [wallet EXCEPT !.paidOut = @ + payout[p].amount]
       /\ record' = [record EXCEPT ![p] = "COMPLETED"]
       /\ \E E \in Earmarks(payout[p].amount) :
             entry' = [o \in Orders |->
                 IF o \in E THEN [entry[o] EXCEPT !.status = "PAID_OUT", !.payout = p]
                            ELSE entry[o]]
       /\ Go(a, OnPayout("record", p, 0))
    /\ UNCHANGED <<claim, journal, transfer>>

(* The transaction: it looks at the status again, and merchant_payouts has *)
(* a unique key on the request, so that a second one is rolled back.       *)
CompletePayout(a) ==
    /\ job[a].at = "complete"
    /\ LET p == job[a].p IN
       IF payout[p].status = "APPROVED" /\ record[p] = "NONE"
       THEN /\ payout' = [payout EXCEPT ![p].status = "COMPLETED"]
            /\ success' = [success EXCEPT ![p] = @ \cup {job[a].n}]
            /\ wallet' = [wallet EXCEPT !.paidOut = @ + payout[p].amount]
            /\ record' = [record EXCEPT ![p] = "COMPLETED"]
            /\ \E E \in Earmarks(payout[p].amount) :
                  entry' = [o \in Orders |->
                      IF o \in E THEN [entry[o] EXCEPT !.status = "PAID_OUT", !.payout = p]
                                 ELSE entry[o]]
            /\ Go(a, OnPayout("record", p, 0))
       ELSE End(a) /\ UNCHANGED <<payout, success, wallet, record, entry>>
    /\ UNCHANGED <<claim, journal, transfer>>

(* recordMerchantPayout and the reversal's postJournal: once per key. *)
PostJournal(a) ==
    /\ \/ /\ job[a].at = "record"
          /\ journal' = [journal EXCEPT ![job[a].p] = @ \cup {"payout"}]
       \/ /\ job[a].at = "unrecord"
          /\ journal' = [journal EXCEPT ![job[a].p] = @ \cup {"reversal"}]
    /\ End(a)
    /\ UNCHANGED <<entry, claim, wallet, payout, record, success, transfer>>

(* Razorpay: the bank returns a transfer. *)
TransferFails(p, i) ==
    /\ transfer[p][i] = "sent"
    /\ transfer' = [transfer EXCEPT ![p][i] = "failed"]
    /\ UNCHANGED <<entry, claim, wallet, payout, record, success, journal, job, faults, calm>>

(* transfer.failed or transfer.reversed arrives, perhaps both or again;    *)
(* without a SUCCESS transaction of that reference nothing is done.        *)
OnTransferFailed(a, p, i) ==
    /\ transfer[p][i] = "failed" /\ i \in success[p]
    /\ Start(a, OnPayout("reverse", p, i))
    /\ UNCHANGED books

(* Mutant: the entries stay marked as paid. *)
ReversePayout_StillMarked(a) ==
    /\ job[a].at = "reverse"
    /\ LET p == job[a].p IN
       /\ success' = [success EXCEPT ![p] = @ \ {job[a].n}]
       /\ payout' = [payout EXCEPT ![p].status = "APPROVED"]
       /\ record' = [record EXCEPT ![p] = "FAILED"]
       /\ wallet' = [wallet EXCEPT !.paidOut = @ - payout[p].amount]
       /\ Go(a, OnPayout("unrecord", p, 0))
    /\ UNCHANGED <<entry, claim, journal, transfer>>

ReversePayout(a) ==
    /\ job[a].at = "reverse"
    /\ LET p == job[a].p IN
       /\ success' = [success EXCEPT ![p] = @ \ {job[a].n}]
       /\ payout' = [payout EXCEPT ![p].status = "APPROVED"]
       /\ record' = [record EXCEPT ![p] = "FAILED"]
       /\ wallet' = [wallet EXCEPT !.paidOut = @ - payout[p].amount]
       /\ entry' = [o \in Orders |->
             IF entry[o].payout = p THEN [entry[o] EXCEPT !.status = "SETTLED", !.payout = None]
                                    ELSE entry[o]]
       /\ Go(a, OnPayout("unrecord", p, 0))
    /\ UNCHANGED <<claim, journal, transfer>>

(* The process dies, or the next statement fails. *)
Crash(a) ==
    /\ job[a] # NoJob
    /\ faults < MaxFaults /\ faults' = faults + 1
    /\ job' = [job EXCEPT ![a] = NoJob]
    /\ calm' = FALSE
    /\ UNCHANGED books

Step(a) ==
    \/ Settle(a) \/ Clawback(a) \/ CreatePayoutRequest(a) \/ ApprovePayoutRequest(a)
    \/ RejectPayoutRequest(a) \/ CreateTransfer(a) \/ CompletePayout(a)
    \/ PostJournal(a) \/ ReversePayout(a) \/ Crash(a)

Begin(a) ==
    \/ \E o \in Orders : FindEligible(a, o) \/ RefundClaim(a, o)
    \/ \E n \in Amounts : RequestPayout(a, n)
    \/ \E p \in Payouts : CheckApproval(a, p) \/ CheckRejection(a, p) \/ Preflight(a, p)
    \/ \E p \in Payouts : \E i \in 1..Len(transfer[p]) : OnTransferFailed(a, p, i)

Next ==
    \/ \E a \in Actors : Step(a) \/ Begin(a)
    \/ \E o \in Orders : CreateLedger(o)
    \/ \E p \in Payouts : \E i \in 1..Len(transfer[p]) : TransferFails(p, i)

Spec == Init /\ [][Next]_vars

-----------------------------------------------------------------------------
(* Properties *)

(* Whatever overlaps, dies or is reported late, an entry counts as paid    *)
(* out exactly while it names a payout, and the record of that payout is   *)
(* then COMPLETED: processPayoutRequest and onTransferFailed, which change *)
(* entries and record each in one transaction, are never seen half done.   *)
PaidEntriesHaveAPayout ==
    \A o \in Orders :
        /\ entry[o].status = "PAID_OUT" <=> entry[o].payout # None
        /\ entry[o].payout # None => record[entry[o].payout] = "COMPLETED"

(* settlement.service.ts:876-880: an entry counts as paid out only on the  *)
(* strength of one SUCCESS transaction of its payout, of a payment by hand *)
(* or of one transfer that was made; handlers that overlap never book two, *)
(* and once the failure of a transfer has been processed nothing is paid   *)
(* on it.  A failure reported before its transfer is booked is dropped,    *)
(* and the entry stays paid: that the transfer stands is not said.         *)
PaidOnOneTransfer ==
    \A o \in Orders : entry[o].status = "PAID_OUT" =>
        \E i \in 0..Len(transfer[entry[o].payout]) : success[entry[o].payout] = {i}

(* The entries marked for a payout are never worth more than it paid. *)
MarkedFor(p) == {o \in Orders : entry[o].payout = p}
EarmarkedWithinPayout == \A p \in Payouts : PaidBy(MarkedFor(p)) <= payout[p].amount

EntriesIn(S) == {o \in Orders : entry[o].status \in S}
AmountOf == [p \in Payouts |-> payout[p].amount]
PayoutsIn(S) == SumFunctionOnSet(AmountOf, {p \in Payouts : payout[p].status \in S})

EarnedIsEntries == wallet.earned = PaidBy(Orders)
NothingLeaks ==
    wallet.pending + wallet.available + PayoutsIn({"APPROVED", "COMPLETED"}) = wallet.earned
PendingIsEntries ==
    (\A o \in Orders : claim[o] # "PAID_OUT") =>
        wallet.pending = PaidBy(EntriesIn({"PENDING"}))
PaidOutIsPayouts == wallet.paidOut = PayoutsIn({"COMPLETED"})
RecordsMatch == \A p \in Payouts : payout[p].status = "COMPLETED" <=> record[p] = "COMPLETED"
JournalsMatch ==
    \A p \in Payouts : /\ record[p] # "NONE" <=> "payout" \in journal[p]
                       /\ record[p] = "FAILED" <=> "reversal" \in journal[p]

(* As long as no handler overlaps another or dies: what has been earned is *)
(* in the wallet or in a payout; each balance is the sum of its entries    *)
(* (the pending one unless a claim came after the payout); what counts as  *)
(* paid out is what completed payouts say; and between handlers journals   *)
(* and merchant_payouts tell the same story.                               *)
BooksAgree ==
    calm => /\ EarnedIsEntries /\ NothingLeaks /\ PendingIsEntries /\ PaidOutIsPayouts
            /\ RecordsMatch
            /\ Quiet => JournalsMatch

(* settlement.service.ts:751-753 ("leave the payout APPROVED so it can be  *)
(* retried"), 876-880: a payout is in at most one transfer that stands.    *)
SentOnce ==
    \A p \in Payouts : Cardinality({i \in 1..Len(transfer[p]) : transfer[p][i] = "sent"}) <= 1
=============================================================================
