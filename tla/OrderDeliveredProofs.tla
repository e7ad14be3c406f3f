------------------------- MODULE OrderDeliveredProofs -------------------------
(***************************************************************************)
(* Theorems about DistributedLock and OrderDelivered, for any number of    *)
(* workers, reports and faults.  The invariant of the lock: tokens are     *)
(* different, and an owner whose time is not up has the key.  That of the  *)
(* handler adds what each of its steps may rely on: the merchant's entry   *)
(* and the awaited cash are there from the step after theirs on, and while *)
(* no lease has been outlived, a row that was looked up and not found is   *)
(* still missing.                                                          *)
(***************************************************************************)
EXTENDS OrderDelivered, TLAPS

-----------------------------------------------------------------------------
(* The lock *)

Distinct == \A v, w \in Workers : token[v] # None /\ token[v] = token[w] => v = w

LockInv == LockTypeOK /\ Distinct /\ LeaseKept

LEMMA LockInitially == LockInit => LockInv
BY NoneAssumption DEF LockInit, LockInv, LockTypeOK, Distinct, LeaseKept

LEMMA AcquirePreserves ==
    ASSUME LockInv, NEW w \in Workers, TryAcquire(w)
    PROVE  LockInv'
<1>1. /\ key = None /\ issued' = issued + 1 /\ key' = issued + 1
      /\ token' = [token EXCEPT ![w] = issued + 1] /\ lapsed' = lapsed
  BY DEF TryAcquire
<1>2. /\ issued \in Nat /\ token \in [Workers -> 1..issued \cup {None}]
      /\ lapsed \subseteq 1..issued
  BY DEF LockInv, LockTypeOK
<1>3. \A v \in Workers : token'[v] = IF v = w THEN issued + 1 ELSE token[v]
  BY <1>1, <1>2
<1>4. issued + 1 \notin 1..issued /\ issued + 1 # None /\ issued + 1 \in 1..(issued + 1)
  BY <1>2, NoneAssumption
<1>5. \A v \in Workers : token[v] # issued + 1
  BY <1>2, <1>4
<1>6. LockTypeOK'
  <2>1. 1..issued \subseteq 1..(issued + 1) /\ issued + 1 \in Nat
    BY <1>2
  <2>2. token' \in [Workers -> 1..(issued + 1) \cup {None}]
    BY <1>1, <1>2, <1>4, <2>1
  <2> QED  BY <1>1, <1>2, <1>4, <2>1, <2>2 DEF LockTypeOK
<1>7. Distinct'
  BY <1>3, <1>5 DEF Distinct, LockInv
<1>8. LeaseKept'
  BY <1>1, <1>3 DEF LeaseKept, LockInv
<1> QED  BY <1>6, <1>7, <1>8 DEF LockInv

LEMMA ReleasePreserves ==
    ASSUME LockInv, NEW w \in Workers, Release(w) \/ Abandon(w)
    PROVE  LockInv'
<1>1. /\ token' = [token EXCEPT ![w] = None] /\ UNCHANGED <<issued, lapsed>>
      /\ key' = key \/ (key = token[w] /\ key' = None)
  BY DEF Release, Abandon
<1>2. /\ issued \in Nat /\ key \in 1..issued \cup {None}
      /\ token \in [Workers -> 1..issued \cup {None}] /\ lapsed \subseteq 1..issued
  BY DEF LockInv, LockTypeOK
<1>3. \A v \in Workers : token'[v] = IF v = w THEN None ELSE token[v]
  BY <1>1, <1>2
<1>4. LockTypeOK'
  BY <1>1, <1>2 DEF LockTypeOK
<1>5. Distinct'
  BY <1>3 DEF Distinct, LockInv
<1>6. LeaseKept'
  BY <1>1, <1>3 DEF LeaseKept, Distinct, LockInv
<1> QED  BY <1>4, <1>5, <1>6 DEF LockInv

LEMMA LapsePreserves ==
    ASSUME LockInv, Lapse
    PROVE  LockInv' /\ lapsed \subseteq lapsed' /\ (Owned => lapsed' # {}) /\ (~Owned => lapsed' = lapsed)
<1>1. /\ key # None /\ key' = None /\ UNCHANGED <<token, issued>>
      /\ lapsed' = IF Owned THEN lapsed \cup {key} ELSE lapsed
  BY DEF Lapse
<1>2. /\ issued \in Nat /\ key \in 1..issued \cup {None}
      /\ token \in [Workers -> 1..issued \cup {None}] /\ lapsed \subseteq 1..issued
  BY DEF LockInv, LockTypeOK
<1>3. LockTypeOK'
  BY <1>1, <1>2 DEF LockTypeOK
<1>4. Distinct'
  BY <1>1 DEF Distinct, LockInv
<1>5. LeaseKept'
  BY <1>1 DEF LeaseKept, LockInv, Owned
<1> QED  BY <1>1, <1>3, <1>4, <1>5 DEF LockInv

LEMMA LockStays ==
    ASSUME LockInv, UNCHANGED lockVars
    PROVE  LockInv'
BY DEF LockInv, LockTypeOK, Distinct, LeaseKept, lockVars

(* What the steps of the lock are to a Lease. *)
LEMMA AcquireGives ==
    ASSUME LockInv, NEW w \in Workers, TryAcquire(w)
    PROVE  Lease!Give(w)
<1>1. /\ issued \in Nat /\ token \in [Workers -> 1..issued \cup {None}]
      /\ lapsed \subseteq 1..issued
  BY DEF LockInv, LockTypeOK
<1>2. issued + 1 \notin lapsed /\ issued + 1 # None
  BY <1>1, NoneAssumption
<1>3. \A v \in Workers : token'[v] = IF v = w THEN issued + 1 ELSE token[v]
  BY <1>1 DEF TryAcquire
<1>4. Holders = {}
  BY DEF Holders, LockInv, LeaseKept, TryAcquire
<1>5. Holders' = {w}
  BY <1>2, <1>3, <1>4 DEF Holders, TryAcquire
<1> QED  BY <1>4, <1>5 DEF Lease!Give

LEMMA ReleaseEnds ==
    ASSUME LockInv, NEW w \in Workers, Release(w) \/ Abandon(w)
    PROVE  Lease!End \/ UNCHANGED Holders
<1>1. token \in [Workers -> 1..issued \cup {None}]
  BY DEF LockInv, LockTypeOK
<1>2. /\ lapsed' = lapsed
      /\ \A v \in Workers : token'[v] = IF v = w THEN None ELSE token[v]
  BY <1>1 DEF Release, Abandon
<1>3. Holders' = Holders \ {w}
  BY <1>2 DEF Holders
<1>4. \A v \in Holders : w \in Holders => v = w
  BY DEF Holders, LockInv, LeaseKept, Distinct
<1> QED  BY <1>3, <1>4 DEF Lease!End

LEMMA LapseEnds ==
    ASSUME LockInv, Lapse
    PROVE  Lease!End \/ UNCHANGED Holders
<1>1. \A w \in Holders : token[w] = key /\ w \in Workers
  BY DEF Holders, LockInv, LeaseKept
<1>2. /\ token' = token
      /\ lapsed' = IF Owned THEN lapsed \cup {key} ELSE lapsed
  BY DEF Lapse
<1>3. Holders' = {}
  BY <1>1, <1>2 DEF Holders, Owned
<1> QED  BY <1>3 DEF Lease!End

LEMMA LockStepsAreLeaseSteps ==
    ASSUME LockInv, [LockNext]_lockVars
    PROVE  [Lease!Next]_Holders
<1>1. CASE \E w \in Workers : TryAcquire(w)
  BY <1>1, AcquireGives DEF Lease!Next
<1>2. CASE \E w \in Workers : Release(w) \/ Abandon(w)
  BY <1>2, ReleaseEnds DEF Lease!Next
<1>3. CASE Lapse
  BY <1>3, LapseEnds DEF Lease!Next
<1>4. CASE UNCHANGED lockVars
  BY <1>4 DEF lockVars, Holders
<1> QED  BY <1>1, <1>2, <1>3, <1>4 DEF LockNext

-----------------------------------------------------------------------------
(* The handler *)

PastLedger == {"find cash", "cash", "find stock", "stock", "rewards", "complete", "reward", "invoice"}
PastCash == {"find stock", "stock", "rewards", "complete", "reward", "invoice"}

(* What a worker at a step may rely on. *)
Sound(step) ==
    /\ step \in PastLedger => "ledger" \in made
    /\ step \in PastCash => (CashDue => cash > 0)
    /\ lapsed = {} => /\ step = "cash" => cash = 0
                      /\ step = "stock" => sold = 0

InsideHasToken == \A w \in Workers : job[w].at \in Critical <=> token[w] # None
AllSound == \A w \in Workers : Sound(job[w].at)

(* Stock that has been sold is not found again. *)
SoldIsGone == sold > 0 => stock # "ACTIVE"

IInv == TypeOK /\ LockInv /\ InsideHasToken /\ AllSound /\ SoldIsGone /\ OncePerOrder /\ MoneyFirst

Steps == {"idle"} \cup Reporting \cup Critical

LEMMA JobAt ==
    ASSUME TypeOK, NEW w \in Workers, NEW s \in Steps, Go(w, s)
    PROVE  /\ job' \in [Workers -> Job]
           /\ \A v \in Workers : job'[v].at = IF v = w THEN s ELSE job[v].at
<1>1. job \in [Workers -> Job] /\ job' = [job EXCEPT ![w] = [job[w] EXCEPT !.at = s]]
  BY DEF TypeOK, Go
<1>2. [job[w] EXCEPT !.at = s] \in Job /\ [job[w] EXCEPT !.at = s].at = s
  BY <1>1 DEF Job, Steps
<1> QED  BY <1>1, <1>2

LEMMA JobEnds ==
    ASSUME TypeOK, NEW w \in Workers, job' = [job EXCEPT ![w] = NoJob]
    PROVE  /\ job' \in [Workers -> Job]
           /\ \A v \in Workers : job'[v].at = IF v = w THEN "idle" ELSE job[v].at
<1>1. NoJob \in Job /\ NoJob.at = "idle"
  BY DEF NoJob, Job, ReportStatus
<1> QED  BY <1>1 DEF TypeOK

(* While no lease has been outlived, one worker is inside. *)
LEMMA OneInside ==
    ASSUME IInv, lapsed = {}, NEW v \in Workers, NEW w \in Workers,
           job[v].at \in Critical, job[w].at \in Critical
    PROVE  v = w
<1>1. token[v] # None /\ token[w] # None
  BY DEF IInv, InsideHasToken
<1>2. key = token[v] /\ key = token[w]
  BY <1>1 DEF IInv, LockInv, LeaseKept
<1> QED  BY <1>1, <1>2 DEF IInv, LockInv, Distinct

DataOK ==
    /\ terms \in Terms
    /\ reached \subseteq ReportStatus /\ shipment \in ReportStatus /\ order \in OrderStatus
    /\ made \subseteq Rows /\ cash \in Nat /\ sold \in Nat /\ stock \in StockStatus
    /\ reports \in 0..MaxReports /\ faults \in 0..MaxFaults

(* A step of worker w to s: the rest of the invariant follows. *)
LEMMA WorkerMoves ==
    ASSUME IInv, NEW w \in Workers, NEW s \in Steps,
           job' \in [Workers -> Job],
           \A v \in Workers : job'[v].at = IF v = w THEN s ELSE job[v].at,
           LockInv', DataOK', SoldIsGone', OncePerOrder', MoneyFirst',
           \A v \in Workers : v # w => token'[v] = token[v],
           s \in Critical <=> token'[w] # None,
           Sound(s)', \A v \in Workers \ {w} : \A t : t = job[v].at => Sound(t)'
    PROVE  IInv'
<1>1. TypeOK'
  BY DEF TypeOK, DataOK, LockInv
<1>2. InsideHasToken'
  <2> SUFFICES ASSUME NEW v \in Workers PROVE job'[v].at \in Critical <=> token'[v] # None
    BY DEF InsideHasToken
  <2>1. job[v].at \in Critical <=> token[v] # None
    BY DEF IInv, InsideHasToken
  <2> QED  BY <2>1
<1>3. AllSound'
  <2> SUFFICES ASSUME NEW v \in Workers PROVE Sound(job[v].at)'
    BY DEF AllSound
  <2>1. CASE v = w
    <3>1. job'[v].at = s
      BY <2>1
    <3> QED  BY <3>1 DEF Sound, CashDue
  <2>2. CASE v # w
    <3>1. job'[v].at = job[v].at
      BY <2>2
    <3>2. \A t : t = job[v].at => Sound(t)'
      BY <2>2
    <3> QED  BY <3>1, <3>2 DEF Sound, CashDue
  <2> QED  BY <2>1, <2>2
<1> QED  BY <1>1, <1>2, <1>3 DEF IInv

LEMMA DataStays == ASSUME IInv PROVE DataOK
BY DEF IInv, TypeOK, DataOK

(* A step that leaves the lock and all rows alone. *)
LEMMA StepsOn ==
    ASSUME IInv, NEW w \in Workers, NEW s \in Steps,
           job' \in [Workers -> Job],
           \A v \in Workers : job'[v].at = IF v = w THEN s ELSE job[v].at,
           s \in Critical <=> job[w].at \in Critical,
           UNCHANGED <<lockVars, terms, reached, made, cash, stock, sold>>,
           order' \in OrderStatus, shipment' \in ReportStatus,
           reports' \in 0..MaxReports, faults' \in 0..MaxFaults,
           order' = "COMPLETED" => order = "COMPLETED" \/ s \in PastCash,
           Sound(s)
    PROVE  IInv'
<1>1. UNCHANGED <<key, token, issued, lapsed>>
  BY DEF lockVars
<1>2. LockInv'
  BY LockStays DEF IInv
<1>3. DataOK'
  BY DataStays DEF DataOK
<1>4. OncePerOrder' /\ SoldIsGone'
  BY <1>1 DEF IInv, OncePerOrder, SoldIsGone
<1>5. MoneyFirst'
  BY DEF IInv, MoneyFirst, CashDue, Sound, PastLedger, PastCash
<1>6. s \in Critical <=> token'[w] # None
  BY <1>1 DEF IInv, InsideHasToken
<1>7. \A t : Sound(t) => Sound(t)'
  BY <1>1 DEF Sound, CashDue
<1>8. \A v \in Workers \ {w} : \A t : t = job[v].at => Sound(t)'
  BY <1>7 DEF IInv, AllSound
<1> QED  BY <1>1, <1>2, <1>3, <1>4, <1>5, <1>6, <1>7, <1>8, WorkerMoves

(* A step within the handler that only reads. *)
LEMMA LooksUp ==
    ASSUME IInv, NEW w \in Workers, NEW s \in Critical, Go(w, s), job[w].at \in Critical,
           UNCHANGED <<lockVars, terms, reached, facts, reports>>, faults' \in 0..MaxFaults,
           Sound(s)
    PROVE  IInv'
<1>1. s \in Steps
  BY DEF Steps
<1>2. UNCHANGED <<shipment, order, made, cash, stock, sold>>
  BY DEF facts
<1>3. TypeOK /\ DataOK
  BY DataStays DEF IInv
<1>4. /\ order' \in OrderStatus /\ shipment' \in ReportStatus
      /\ reports' \in 0..MaxReports
  BY <1>2, <1>3 DEF DataOK
<1> QED  BY <1>1, <1>2, <1>3, <1>4, JobAt, StepsOn

(* A worker goes idle without having touched anything. *)
LEMMA IdleIsSound == Sound("idle") /\ Sound("apply") /\ Sound("sync") /\ Sound("lock")
BY DEF Sound, PastLedger, PastCash

LEMMA StepSets ==
    /\ "idle" \in Steps \ Critical /\ Reporting \subseteq Steps \ Critical /\ Critical \subseteq Steps
    /\ PastCash \subseteq PastLedger /\ PastLedger \subseteq Critical
BY DEF Steps, Critical, Reporting, PastCash, PastLedger

LEMMA CallPreserves ==
    ASSUME IInv, NEW w \in Workers, Call(w)
    PROVE  IInv'
<1>1. PICK s \in ReportStatus, step \in {"apply", "sync"} : Starts(w, s, step)
  <2>1. reached \subseteq ReportStatus /\ "DELIVERED" \in ReportStatus
    BY DEF IInv, TypeOK, ReportStatus
  <2> QED  BY <2>1 DEF Call, ReceiveReport, RiderDelivers, MerchantDelivers
<1>2. /\ job[w] = NoJob /\ reports < MaxReports /\ reports' = reports + 1
      /\ job' = [job EXCEPT ![w] = [at |-> step, status |-> s]]
      /\ UNCHANGED <<lockVars, terms, reached, facts, faults>>
  BY <1>1 DEF Starts
<1>3. TypeOK /\ DataOK
  BY DataStays DEF IInv
<1>4. step \in Reporting /\ job[w].at = "idle"
  BY <1>2 DEF Reporting, NoJob
<1>5. [at |-> step, status |-> s] \in Job
  BY <1>4 DEF Job
<1>6. /\ job' \in [Workers -> Job]
      /\ \A v \in Workers : job'[v].at = IF v = w THEN step ELSE job[v].at
  BY <1>2, <1>3, <1>5 DEF TypeOK
<1>7. reports' \in 0..MaxReports
  BY <1>2, <1>3, BoundAssumption DEF DataOK
<1>8. UNCHANGED <<shipment, order, made, cash, stock, sold>>
  BY <1>2 DEF facts
<1>9. order' \in OrderStatus /\ shipment' \in ReportStatus /\ faults' \in 0..MaxFaults
  BY <1>2, <1>3, <1>8 DEF DataOK
<1>10. step \in Steps /\ step \notin Critical /\ job[w].at \notin Critical /\ Sound(step)
  BY <1>4, StepSets, IdleIsSound
<1> QED  BY <1>2, <1>6, <1>7, <1>8, <1>9, <1>10, StepsOn

LEMMA ReportPreserves ==
    ASSUME IInv, NEW w \in Workers, ApplyReport(w) \/ SyncOrder(w) \/ SkipBusy(w)
    PROVE  IInv'
<1>1. TypeOK /\ DataOK
  BY DataStays DEF IInv
<1>2. PICK s \in {"idle", "sync", "lock"} :
         /\ job' \in [Workers -> Job]
         /\ \A v \in Workers : job'[v].at = IF v = w THEN s ELSE job[v].at
  <2>1. {"sync", "lock"} \subseteq Steps
    BY DEF Steps, Reporting
  <2>2. CASE \E s \in {"sync", "lock"} : Go(w, s)
    BY <1>1, <2>1, <2>2, JobAt
  <2>3. CASE job' = [job EXCEPT ![w] = NoJob]
    BY <1>1, <2>3, JobEnds
  <2> QED  BY <2>2, <2>3 DEF ApplyReport, SyncOrder, SkipBusy
<1>3. job[w].at \in Reporting
  BY DEF ApplyReport, SyncOrder, SkipBusy, Reporting
<1>4. s \in Steps /\ s \notin Critical /\ job[w].at \notin Critical /\ Sound(s)
  BY <1>3, StepSets, IdleIsSound DEF Reporting
<1>5. UNCHANGED <<lockVars, terms, reached, made, cash, stock, sold, reports, faults>>
  BY DEF ApplyReport, SyncOrder, SkipBusy, facts, bounds
<1>6. job[w].status \in ReportStatus
  BY <1>1 DEF TypeOK, Job
<1>7. order' \in OrderStatus /\ (order' = "COMPLETED" => order = "COMPLETED")
  <2>1. \/ OrderStatusFor(job[w].status) \in OrderStatus \ {"COMPLETED"}
        \/ OrderStatusFor(job[w].status) = order
    BY <1>6 DEF OrderStatusFor, ReportStatus, OrderStatus
  <2>2. order' = order \/ order' = OrderStatusFor(job[w].status)
    BY DEF ApplyReport, SyncOrder, SkipBusy, facts
  <2> QED  BY <1>1, <2>1, <2>2 DEF DataOK
<1>8. shipment' \in ReportStatus
  BY <1>1, <1>6 DEF ApplyReport, SyncOrder, SkipBusy, facts, DataOK
<1>9. reports' \in 0..MaxReports /\ faults' \in 0..MaxFaults
  BY <1>1, <1>5 DEF DataOK
<1> QED  BY <1>2, <1>4, <1>5, <1>7, <1>8, <1>9, StepsOn

LEMMA AfterLedgerIsSound ==
    ASSUME "ledger" \in made
    PROVE  AfterLedger \in Critical /\ Sound(AfterLedger)
BY DEF AfterLedger, Critical, Sound, PastLedger, PastCash, CashDue

LEMMA LookUpPreserves ==
    ASSUME IInv, NEW w \in Workers,
           \/ ReadOrder(w) \/ FindLedger(w) \/ FindCash(w) \/ FindReservations(w)
           \/ FinalizeOrderRewards(w)
    PROVE  IInv'
<1>1. Sound(job[w].at) /\ faults \in 0..MaxFaults /\ cash \in Nat /\ sold \in Nat
  BY DEF IInv, AllSound, TypeOK
<1>2. /\ UNCHANGED <<lockVars, terms, reached, facts, bounds>>
      /\ job[w].at \in Critical
  BY DEF ReadOrder, FindLedger, FindCash, FindReservations, FinalizeOrderRewards, Critical
<1>3. UNCHANGED reports /\ faults' \in 0..MaxFaults
  BY <1>1, <1>2 DEF bounds
<1>4. SUFFICES \E s \in Critical : Go(w, s) /\ Sound(s)
  BY <1>2, <1>3, LooksUp
<1>5. CASE ReadOrder(w)
  <2>1. \E s \in {"release", "find ledger", "deliver"} : Go(w, s)
    BY <1>5 DEF ReadOrder
  <2>2. \A s \in {"release", "find ledger", "deliver"} : s \in Critical /\ Sound(s)
    BY DEF Critical, Sound, PastLedger, PastCash
  <2> QED  BY <2>1, <2>2
<1>6. CASE FindLedger(w)
  <2>1. CASE "ledger" \in made
    BY <1>6, <2>1, AfterLedgerIsSound DEF FindLedger
  <2>2. CASE "ledger" \notin made
    <3>1. "ledger" \in Critical /\ Sound("ledger")
      BY DEF Critical, Sound, PastLedger, PastCash
    <3> QED  BY <1>6, <2>2, <3>1 DEF FindLedger
  <2> QED  BY <2>1, <2>2
<1>7. CASE FindCash(w)
  <2>1. "ledger" \in made
    BY <1>1, <1>7 DEF FindCash, Sound, PastLedger
  <2>2. CASE cash > 0 \/ terms.by = "merchant"
    <3>1. "find stock" \in Critical /\ Sound("find stock")
      BY <2>1, <2>2 DEF Critical, Sound, PastLedger, PastCash, CashDue
    <3> QED  BY <1>7, <2>2, <3>1 DEF FindCash
  <2>3. CASE ~(cash > 0 \/ terms.by = "merchant")
    <3>1. cash = 0
      BY <1>1, <2>3
    <3>2. "cash" \in Critical /\ Sound("cash")
      BY <2>1, <3>1 DEF Critical, Sound, PastLedger, PastCash
    <3> QED  BY <1>7, <2>3, <3>2 DEF FindCash
  <2> QED  BY <2>2, <2>3
<1>8. CASE FindReservations(w)
  <2>1. "ledger" \in made /\ (CashDue => cash > 0)
    BY <1>1, <1>8 DEF FindReservations, Sound, PastLedger, PastCash
  <2>2. {"rewards", "stock"} \subseteq Critical /\ Sound("rewards")
    BY <2>1 DEF Critical, Sound, PastLedger, PastCash
  <2>3. CASE stock # "ACTIVE"
    BY <1>8, <2>2, <2>3 DEF FindReservations
  <2>4. CASE stock = "ACTIVE"
    <3>1. sold = 0
      BY <1>1, <2>4 DEF IInv, SoldIsGone
    <3>2. Sound("stock")
      BY <2>1, <3>1 DEF Sound, PastLedger, PastCash
    <3> QED  BY <1>8, <2>2, <2>4, <3>2 DEF FindReservations
  <2> QED  BY <2>3, <2>4
<1>9. CASE FinalizeOrderRewards(w)
  <2>1. "ledger" \in made /\ (CashDue => cash > 0)
    BY <1>1, <1>9 DEF FinalizeOrderRewards, Sound, PastLedger, PastCash
  <2>2. \A s \in {"invoice", "complete"} : s \in Critical /\ Sound(s)
    BY <2>1 DEF Critical, Sound, PastLedger, PastCash
  <2>3. \E s \in {"invoice", "complete"} : Go(w, s)
    BY <1>9 DEF FinalizeOrderRewards
  <2> QED  BY <2>2, <2>3
<1> QED  BY <1>5, <1>6, <1>7, <1>8, <1>9

LEMMA StatusPreserves ==
    ASSUME IInv, NEW w \in Workers, MarkDelivered(w) \/ CompleteOrder(w)
    PROVE  IInv'
<1>1. TypeOK /\ DataOK /\ Sound(job[w].at)
  BY DataStays DEF IInv, AllSound
<1>2. /\ UNCHANGED <<lockVars, terms, reached, shipment, made, cash, stock, sold, reports, faults>>
      /\ job[w].at \in Critical
  BY DEF MarkDelivered, CompleteOrder, bounds, Critical
<1>3. /\ shipment' \in ReportStatus /\ reports' \in 0..MaxReports /\ faults' \in 0..MaxFaults
  BY <1>1, <1>2 DEF DataOK
<1>4. CASE MarkDelivered(w)
  <2>1. Go(w, "find ledger") /\ order' = "DELIVERED" /\ order' \in OrderStatus
    BY <1>4 DEF MarkDelivered, OrderStatus
  <2>2. "find ledger" \in Critical /\ Sound("find ledger")
    BY DEF Critical, Sound, PastLedger, PastCash
  <2>3. "find ledger" \in Steps
    BY <2>2, StepSets
  <2> QED  BY <1>1, <1>2, <1>3, <2>1, <2>2, <2>3, JobAt, StepsOn
<1>5. CASE CompleteOrder(w)
  <2>1. Go(w, "reward") /\ order' \in OrderStatus
    BY <1>5 DEF CompleteOrder, OrderStatus
  <2>2. "reward" \in PastCash /\ Sound("reward")
    BY <1>1, <1>5 DEF CompleteOrder, Sound, PastLedger, PastCash
  <2>3. "reward" \in Steps /\ "reward" \in Critical
    BY <2>2, StepSets
  <2> QED  BY <1>1, <1>2, <1>3, <2>1, <2>2, <2>3, JobAt, StepsOn
<1> QED  BY <1>4, <1>5

(* A step that makes a row with a unique key. *)
LEMMA MakesRow ==
    ASSUME IInv, NEW w \in Workers, NEW s \in Critical, NEW row \in Rows, Go(w, s),
           job[w].at \in Critical, made' = made \cup {row},
           UNCHANGED <<lockVars, terms, reached, shipment, order, cash, stock, sold, bounds>>,
           row # "ledger" => "ledger" \in made /\ (CashDue => cash > 0),
           Sound(s)'
    PROVE  IInv'
<1>1. TypeOK /\ DataOK /\ s \in Steps
  BY DataStays, StepSets DEF IInv
<1>2. UNCHANGED <<key, token, issued, lapsed, reports, faults>>
  BY DEF lockVars, bounds
<1>3. LockInv'
  BY LockStays DEF IInv
<1>4. DataOK'
  BY <1>1, <1>2 DEF DataOK
<1>5. OncePerOrder' /\ SoldIsGone'
  BY <1>2 DEF IInv, OncePerOrder, SoldIsGone
<1>6. MoneyFirst'
  BY DEF IInv, MoneyFirst, CashDue
<1>7. s \in Critical <=> token'[w] # None
  BY <1>2 DEF IInv, InsideHasToken
<1>8. \A t : Sound(t) => Sound(t)'
  BY <1>2 DEF Sound, CashDue
<1>9. \A v \in Workers \ {w} : \A t : t = job[v].at => Sound(t)'
  BY <1>8 DEF IInv, AllSound
<1>10. /\ job' \in [Workers -> Job]
       /\ \A v \in Workers : job'[v].at = IF v = w THEN s ELSE job[v].at
  BY <1>1, JobAt
<1> QED  BY <1>1, <1>2, <1>3, <1>4, <1>5, <1>6, <1>7, <1>9, <1>10, WorkerMoves

LEMMA RowPreserves ==
    ASSUME IInv, NEW w \in Workers, CreateLedger(w) \/ CreditPoints(w) \/ GenerateInvoice(w)
    PROVE  IInv'
<1>1. Sound(job[w].at)
  BY DEF IInv, AllSound
<1>2. /\ UNCHANGED <<lockVars, terms, reached, shipment, order, cash, stock, sold, bounds>>
      /\ job[w].at \in Critical
  BY DEF CreateLedger, CreditPoints, GenerateInvoice, Critical
<1>3. CASE CreateLedger(w)
  <2>1. made' = made \cup {"ledger"} /\ "ledger" \in Rows /\ "ledger" \in made'
    BY <1>3 DEF CreateLedger, Rows
  <2>2. \E s \in {"release", "find cash", "find stock"} :
           Go(w, s) /\ (s = "find stock" => ~CashDue)
    BY <1>3 DEF CreateLedger, AfterLedger, CashDue
  <2>3. \A s \in {"release", "find cash", "find stock"} :
           s \in Critical /\ ((s = "find stock" => ~CashDue) => Sound(s)')
    BY <1>2, <2>1 DEF Critical, Sound, PastLedger, PastCash, CashDue
  <2> QED  BY <1>2, <2>1, <2>2, <2>3, MakesRow
<1>4. CASE CreditPoints(w)
  <2>1. /\ made' = made \/ made' = made \cup {"reward"}
        /\ "reward" \in Rows /\ Go(w, "invoice")
    BY <1>4 DEF CreditPoints, Rows
  <2>2. "ledger" \in made /\ (CashDue => cash > 0)
    BY <1>1, <1>4 DEF CreditPoints, Sound, PastLedger, PastCash
  <2>3. "invoice" \in Critical /\ Sound("invoice") /\ Sound("invoice")'
    BY <1>2, <2>1, <2>2 DEF Critical, Sound, PastLedger, PastCash, CashDue
  <2>4. CASE made' = made
    <3>1. UNCHANGED facts /\ faults' \in 0..MaxFaults /\ UNCHANGED reports
      BY <1>2, <2>4 DEF facts, bounds, IInv, TypeOK
    <3> QED  BY <1>2, <2>1, <2>3, <3>1, LooksUp
  <2>5. CASE made' = made \cup {"reward"}
    BY <1>2, <2>1, <2>2, <2>3, <2>5, MakesRow
  <2> QED  BY <2>1, <2>4, <2>5
<1>5. CASE GenerateInvoice(w)
  <2>1. made' = made \cup {"invoice"} /\ "invoice" \in Rows /\ Go(w, "release")
    BY <1>5 DEF GenerateInvoice, Rows
  <2>2. "ledger" \in made /\ (CashDue => cash > 0)
    BY <1>1, <1>5 DEF GenerateInvoice, Sound, PastLedger, PastCash
  <2>3. "release" \in Critical /\ Sound("release")'
    BY DEF Critical, Sound, PastLedger, PastCash
  <2> QED  BY <1>2, <2>1, <2>2, <2>3, MakesRow
<1> QED  BY <1>3, <1>4, <1>5

(* A counter that stays or goes up by one. *)
LEMMA Counting ==
    ASSUME NEW n \in Nat, NEW d, d = n \/ d = n + 1
    PROVE  d \in Nat /\ (n > 0 => d > 0) /\ (d = n + 1 => d > 0)
           /\ (n <= 1 /\ (n = 0 \/ d = n) => d <= 1)
OBVIOUS

(* The two writes that nothing but the lock protects: the other workers    *)
(* are outside, or a lease has been outlived.                              *)
LEMMA CountPreserves ==
    ASSUME IInv, NEW w \in Workers, CreateCash(w) \/ FulfillOnDelivery(w)
    PROVE  IInv'
<1>1. TypeOK /\ DataOK /\ Sound(job[w].at) /\ cash \in Nat /\ sold \in Nat
  BY DataStays DEF IInv, AllSound, DataOK
<1>2. /\ UNCHANGED <<lockVars, terms, reached, shipment, order, made, bounds>>
      /\ job[w].at \in Critical
      /\ \/ job[w].at = "cash" /\ Go(w, "find stock") /\ cash' = cash + 1 /\ sold' = sold
         \/ job[w].at = "stock" /\ Go(w, "rewards") /\ cash' = cash /\ sold' = sold + 1
  BY DEF CreateCash, FulfillOnDelivery, Critical
<1>20. /\ stock' \in StockStatus
       /\ \/ sold' = sold /\ stock' = stock
          \/ stock' # "ACTIVE"
  BY <1>1 DEF CreateCash, FulfillOnDelivery, DataOK, StockStatus
<1>21. SoldIsGone'
  BY <1>20 DEF IInv, SoldIsGone
<1>3. UNCHANGED <<key, token, issued, lapsed, reports, faults>>
  BY <1>2 DEF lockVars, bounds
<1>4. PICK s \in {"find stock", "rewards"} : Go(w, s)
  BY <1>2
<1>5. s \in Critical /\ s \in Steps
  BY DEF Critical, Steps
<1>6. /\ job' \in [Workers -> Job]
      /\ \A v \in Workers : job'[v].at = IF v = w THEN s ELSE job[v].at
  BY <1>1, <1>4, <1>5, JobAt
<1>7. LockInv'
  BY <1>2, LockStays DEF IInv
<1>17. \/ job[w].at = "cash" /\ cash' = cash + 1 /\ sold' = sold
       \/ job[w].at = "stock" /\ cash' = cash /\ sold' = sold + 1
  BY <1>2
<1>18. cash \in Nat /\ sold \in Nat
  BY <1>1
<1>19. (cash' = cash \/ cash' = cash + 1) /\ (sold' = sold \/ sold' = sold + 1)
  BY <1>17
<1>8. /\ cash' \in Nat /\ (cash > 0 => cash' > 0) /\ (cash' = cash + 1 => cash' > 0)
      /\ cash <= 1 /\ (cash = 0 \/ cash' = cash) => cash' <= 1
      /\ sold' \in Nat
      /\ sold <= 1 /\ (sold = 0 \/ sold' = sold) => sold' <= 1
  <2>1. /\ cash' \in Nat /\ (cash > 0 => cash' > 0) /\ (cash' = cash + 1 => cash' > 0)
        /\ cash <= 1 /\ (cash = 0 \/ cash' = cash) => cash' <= 1
    BY <1>18, <1>19, Counting
  <2>2. sold' \in Nat /\ (sold <= 1 /\ (sold = 0 \/ sold' = sold) => sold' <= 1)
    BY <1>18, <1>19, Counting
  <2> QED  BY <2>1, <2>2
<1>9. DataOK'
  BY <1>1, <1>2, <1>3, <1>8, <1>20 DEF DataOK
<1>10. OncePerOrder'
  <2>1. cash = 0 \/ cash' = cash \/ lapsed # {}
    BY <1>1, <1>2 DEF Sound
  <2>2. sold = 0 \/ sold' = sold \/ lapsed # {}
    BY <1>1, <1>2 DEF Sound
  <2>3. CASE lapsed = {}
    <3>1. cash <= 1 /\ sold <= 1
      BY <2>3 DEF IInv, OncePerOrder
    <3>2. cash' <= 1 /\ sold' <= 1
      BY <1>8, <2>1, <2>2, <2>3, <3>1
    <3> QED  BY <3>2 DEF OncePerOrder
  <2>4. CASE lapsed # {}
    BY <1>3, <2>4 DEF OncePerOrder
  <2> QED  BY <2>3, <2>4
<1>11. CashDue' <=> CashDue
  BY <1>2 DEF CashDue
<1>12. /\ cash > 0 => cash' > 0
       /\ job[w].at = "cash" => cash' > 0
  BY <1>8, <1>17
<1>13. MoneyFirst'
  BY <1>2, <1>11, <1>12 DEF IInv, MoneyFirst
<1>14. s \in Critical <=> token'[w] # None
  BY <1>2, <1>3, <1>5 DEF IInv, InsideHasToken
<1>15. Sound(s)'
  <2>1. "ledger" \in made'
    BY <1>1, <1>2 DEF Sound, PastLedger
  <2>2. CashDue => cash' > 0
    BY <1>1, <1>2, <1>12 DEF Sound, PastCash
  <2> QED  BY <1>11, <2>1, <2>2 DEF Sound
<1>16. \A v \in Workers \ {w} : \A t : t = job[v].at => Sound(t)'
  <2> SUFFICES ASSUME NEW v \in Workers \ {w}, NEW t, t = job[v].at PROVE Sound(t)'
    OBVIOUS
  <2>1. Sound(t)
    BY DEF IInv, AllSound
  <2>2. t \in {"cash", "stock"} => lapsed # {}
    BY <1>2, OneInside DEF Critical
  <2> QED  BY <1>2, <1>3, <1>11, <1>12, <2>1, <2>2 DEF Sound
<1> QED  BY <1>5, <1>6, <1>7, <1>9, <1>10, <1>13, <1>14, <1>15, <1>16, <1>21, <1>3,
         WorkerMoves

(* A step that takes, gives back or abandons the lock. *)
LEMMA LockMoves ==
    ASSUME IInv, NEW w \in Workers, NEW s \in Steps,
           job' \in [Workers -> Job],
           \A v \in Workers : job'[v].at = IF v = w THEN s ELSE job[v].at,
           LockInv', \A v \in Workers : v # w => token'[v] = token[v],
           s \in Critical <=> token'[w] # None,
           UNCHANGED <<lapsed, terms, reached, facts, reports>>, faults' \in 0..MaxFaults,
           Sound(s)
    PROVE  IInv'
<1>1. UNCHANGED <<shipment, order, made, cash, stock, sold>>
  BY DEF facts
<1>2. DataOK'
  BY <1>1, DataStays DEF DataOK
<1>3. OncePerOrder' /\ MoneyFirst' /\ SoldIsGone'
  BY <1>1 DEF IInv, OncePerOrder, MoneyFirst, SoldIsGone, CashDue
<1>4. \A t : Sound(t) => Sound(t)'
  BY <1>1 DEF Sound, CashDue
<1>5. \A v \in Workers \ {w} : \A t : t = job[v].at => Sound(t)'
  BY <1>4 DEF IInv, AllSound
<1> QED  BY <1>2, <1>3, <1>4, <1>5, WorkerMoves

LEMMA TokenIs ==
    ASSUME LockInv, NEW w \in Workers, NEW x, token' = [token EXCEPT ![w] = x]
    PROVE  \A v \in Workers : token'[v] = IF v = w THEN x ELSE token[v]
BY DEF LockInv, LockTypeOK

LEMMA LockPreserves ==
    ASSUME IInv, NEW w \in Workers, Acquire(w) \/ Finish(w) \/ Crash(w)
    PROVE  IInv'
<1>1. TypeOK /\ LockInv
  BY DEF IInv
<1>2. faults' \in 0..MaxFaults
  <2>1. faults \in 0..MaxFaults
    BY <1>1 DEF TypeOK
  <2>2. UNCHANGED faults \/ (faults < MaxFaults /\ faults' = faults + 1)
    BY DEF Acquire, Finish, Crash, bounds, Fault
  <2> QED  BY <2>1, <2>2, BoundAssumption
<1>3. UNCHANGED <<lapsed, terms, reached, facts, reports>>
  BY DEF Acquire, Finish, Crash, TryAcquire, Release, Abandon, bounds
<1>4. CASE Acquire(w)
  <2>1. TryAcquire(w) /\ Go(w, "read")
    BY <1>4 DEF Acquire
  <2>2. "read" \in Critical /\ "read" \in Steps /\ Sound("read")
    BY DEF Critical, Steps, Sound, PastLedger, PastCash
  <2>3. issued + 1 # None
    BY <1>1, NoneAssumption DEF LockInv, LockTypeOK
  <2>4. \A v \in Workers : token'[v] = IF v = w THEN issued + 1 ELSE token[v]
    BY <1>1, <2>1, TokenIs DEF TryAcquire
  <2>5. LockInv'
    BY <1>1, <2>1, AcquirePreserves
  <2> QED  BY <1>1, <1>2, <1>3, <2>1, <2>2, <2>3, <2>4, <2>5, JobAt, LockMoves
<1>5. CASE Finish(w) \/ Crash(w)
  <2>1. (Release(w) \/ Abandon(w)) /\ job' = [job EXCEPT ![w] = NoJob]
    BY <1>5 DEF Finish, Crash
  <2>2. "idle" \in Steps /\ "idle" \notin Critical /\ Sound("idle")
    BY StepSets, IdleIsSound
  <2>3. \A v \in Workers : token'[v] = IF v = w THEN None ELSE token[v]
    BY <1>1, <2>1, TokenIs DEF Release, Abandon
  <2>4. LockInv'
    BY <1>1, <2>1, ReleasePreserves
  <2> QED  BY <1>1, <1>2, <1>3, <2>1, <2>2, <2>3, <2>4, JobEnds, LockMoves
<1> QED  BY <1>4, <1>5

LEMMA FailPreserves ==
    ASSUME IInv, NEW w \in Workers, Fail(w)
    PROVE  IInv'
<1>1. /\ job[w].at \in Critical /\ UNCHANGED <<lockVars, terms, reached, facts, reports>>
      /\ faults < MaxFaults /\ faults' = faults + 1
  BY DEF Fail, Fault
<1>2. Sound(job[w].at) /\ faults \in 0..MaxFaults
  BY DEF IInv, AllSound, TypeOK
<1>3. faults' \in 0..MaxFaults
  BY <1>1, <1>2, BoundAssumption
<1>4. PICK s \in {"rewards", "invoice", "release"} :
         Go(w, s) /\ (s # "release" => job[w].at \in PastCash)
  BY DEF Fail, PastCash
<1>5. s \in Critical /\ Sound(s)
  BY <1>2, <1>4 DEF Critical, Sound, PastLedger, PastCash
<1> QED  BY <1>1, <1>3, <1>4, <1>5, LooksUp

LEMMA LapsesPreserve ==
    ASSUME IInv, Outlive \/ KeyOfTheDeadLapses
    PROVE  IInv'
<1>1. Lapse /\ UNCHANGED <<terms, reached, facts, job, reports>> /\ token' = token
  BY DEF Outlive, KeyOfTheDeadLapses, Lapse, bounds
<1>2. LockInv' /\ lapsed \subseteq lapsed'
  BY <1>1, LapsePreserves DEF IInv
<1>3. lapsed' = {} => lapsed = {}
  BY <1>2
<1>4. faults' \in 0..MaxFaults
  <2>1. faults \in 0..MaxFaults
    BY DEF IInv, TypeOK
  <2>2. UNCHANGED faults \/ (faults < MaxFaults /\ faults' = faults + 1)
    BY DEF Outlive, KeyOfTheDeadLapses, bounds, Fault
  <2> QED  BY <2>1, <2>2, BoundAssumption
<1>5. UNCHANGED <<shipment, order, made, cash, stock, sold>>
  BY <1>1 DEF facts
<1>6. TypeOK'
  BY <1>1, <1>2, <1>4, <1>5 DEF IInv, TypeOK, LockInv
<1>7. InsideHasToken'
  BY <1>1 DEF IInv, InsideHasToken
<1>8. AllSound' /\ SoldIsGone' /\ OncePerOrder' /\ MoneyFirst'
  BY <1>1, <1>3, <1>5 DEF IInv, AllSound, Sound, SoldIsGone, OncePerOrder, MoneyFirst, CashDue
<1> QED  BY <1>2, <1>6, <1>7, <1>8 DEF IInv

-----------------------------------------------------------------------------
(* The theorems *)

LEMMA Initially == Init => IInv
<1> SUFFICES ASSUME Init PROVE IInv
  OBVIOUS
<1>1. LockInv
  BY LockInitially DEF Init
<1>2. NoJob \in Job /\ NoJob.at = "idle"
  BY DEF NoJob, Job, ReportStatus
<1>3. job = [w \in Workers |-> NoJob] /\ token = [w \in Workers |-> None]
  BY DEF Init, LockInit
<1>4. TypeOK
  BY <1>1, <1>2, BoundAssumption DEF Init, TypeOK, LockInv, ReportStatus, OrderStatus, StockStatus
<1>5. InsideHasToken /\ AllSound
  BY <1>2, <1>3, StepSets, IdleIsSound DEF InsideHasToken, AllSound
<1>6. SoldIsGone /\ OncePerOrder /\ MoneyFirst
  BY DEF Init, SoldIsGone, OncePerOrder, MoneyFirst
<1> QED  BY <1>1, <1>4, <1>5, <1>6 DEF IInv

LEMMA Inductive == IInv /\ [Next]_vars => IInv'
<1> SUFFICES ASSUME IInv, [Next]_vars PROVE IInv'
  OBVIOUS
<1>1. ASSUME NEW w \in Workers, Step(w) PROVE IInv'
  BY <1>1, ReportPreserves, LockPreserves, LookUpPreserves, StatusPreserves, RowPreserves,
     CountPreserves DEF Step
<1>2. ASSUME NEW w \in Workers, Call(w) \/ Fail(w) \/ Crash(w) PROVE IInv'
  BY <1>2, CallPreserves, FailPreserves, LockPreserves
<1>3. CASE ShipmentMoves
  <2>1. UNCHANGED <<lockVars, terms, facts, job, bounds>> /\ reached' \subseteq ReportStatus
    BY <1>3, ReportedAssumption DEF ShipmentMoves, IInv, TypeOK
  <2>2. LockInv' /\ UNCHANGED <<token, lapsed, shipment, order, made, cash, stock, sold, reports, faults>>
    BY <2>1, LockStays DEF IInv, lockVars, facts, bounds
  <2>3. TypeOK'
    BY <2>1, <2>2 DEF IInv, TypeOK, LockInv
  <2> QED  BY <2>1, <2>2, <2>3
              DEF IInv, InsideHasToken, AllSound, Sound, SoldIsGone, OncePerOrder, MoneyFirst, CashDue
<1>4. CASE Outlive \/ KeyOfTheDeadLapses
  BY <1>4, LapsesPreserve
<1>5. CASE UNCHANGED vars
  <2>1. LockInv' /\ UNCHANGED <<token, lapsed, terms, reached, shipment, order, made, cash, stock, sold,
                                job, reports, faults>>
    BY <1>5, LockStays DEF IInv, vars, lockVars, facts, bounds
  <2>2. TypeOK'
    BY <2>1 DEF IInv, TypeOK, LockInv
  <2> QED  BY <2>1, <2>2
              DEF IInv, InsideHasToken, AllSound, Sound, SoldIsGone, OncePerOrder, MoneyFirst, CashDue
<1>6. CASE ExpireReservations
  <2>1. /\ UNCHANGED <<lockVars, terms, reached, shipment, order, made, cash, sold, job, bounds>>
        /\ stock' \in StockStatus /\ stock' # "ACTIVE"
    BY <1>6 DEF ExpireReservations, StockStatus
  <2>2. LockInv' /\ UNCHANGED <<token, lapsed, reports, faults>>
    BY <2>1, LockStays DEF IInv, lockVars, bounds
  <2>3. TypeOK'
    BY <2>1, <2>2 DEF IInv, TypeOK, LockInv
  <2> QED  BY <2>1, <2>2, <2>3
              DEF IInv, InsideHasToken, AllSound, Sound, SoldIsGone, OncePerOrder, MoneyFirst, CashDue
<1> QED  BY <1>1, <1>2, <1>3, <1>4, <1>5, <1>6 DEF Next

LEMMA Invariant == Spec => []IInv
BY Initially, Inductive, PTL DEF Spec

(* The lock, the order, its rows and the steps of all workers are well     *)
(* typed.                                                                  *)
THEOREM TypeCorrect == Spec => []TypeOK
<1>1. IInv => TypeOK
  BY DEF IInv
<1> QED  BY <1>1, Invariant, PTL

(* distributed-lock.service.ts: a key is taken from its owner by time      *)
(* alone, never by another's release.                                      *)
THEOREM LeaseAlwaysKept == Spec => []LeaseKept
<1>1. IInv => LeaseKept
  BY DEF IInv, LockInv
<1> QED  BY <1>1, Invariant, PTL

(* Every step of the handlers is a step of their lock or leaves it alone. *)
LEMMA HandlersUseTheLock == [Next]_vars => [LockNext]_lockVars
<1> SUFFICES ASSUME [Next]_vars PROVE LockNext \/ UNCHANGED lockVars
  OBVIOUS
<1>1. ASSUME NEW w \in Workers, Step(w) PROVE LockNext \/ UNCHANGED lockVars
  BY <1>1 DEF Step, LockNext, ApplyReport, SyncOrder, Acquire, SkipBusy, ReadOrder, MarkDelivered,
     FindLedger, CreateLedger, FindCash, CreateCash, FindReservations, FulfillOnDelivery,
     FinalizeOrderRewards, CompleteOrder, CreditPoints, GenerateInvoice, Finish
<1>2. ASSUME NEW w \in Workers, Call(w) PROVE UNCHANGED lockVars
  BY <1>2 DEF Call, ReceiveReport, RiderDelivers, MerchantDelivers, Starts
<1>3. ASSUME NEW w \in Workers, Fail(w) \/ Crash(w) PROVE LockNext \/ UNCHANGED lockVars
  BY <1>3 DEF Fail, Crash, LockNext
<1>4. CASE ShipmentMoves \/ ExpireReservations \/ Outlive \/ KeyOfTheDeadLapses
  BY <1>4 DEF ShipmentMoves, ExpireReservations, Outlive, KeyOfTheDeadLapses, LockNext
<1>5. CASE UNCHANGED vars
  BY <1>5 DEF vars
<1> QED  BY <1>1, <1>2, <1>3, <1>4, <1>5 DEF Next

(* distributed-lock.service.ts: with its key, its tokens and its time to   *)
(* live it implements a Lease, under handlers that fail, die and overrun.  *)
THEOREM LeaseImplemented == Spec => ImplementsLease
<1>1. Init => Lease!Init
  BY DEF Init, LockInit, Lease!Init, Holders
<1>2. IInv /\ [Next]_vars => [Lease!Next]_Holders
  BY HandlersUseTheLock, LockStepsAreLeaseSteps DEF IInv
<1> QED  BY <1>1, <1>2, Invariant, PTL DEF Spec, ImplementsLease, Lease!Spec

(* handleDelivered: the rows without a unique key are made once, as long   *)
(* as no handler outlives its lease.                                       *)
THEOREM HandledOncePerOrder == Spec => []OncePerOrder
<1>1. IInv => OncePerOrder
  BY DEF IInv
<1> QED  BY <1>1, Invariant, PTL

(* handleDelivered: the merchant's entry and the awaited cash come before  *)
(* completion, reward and invoice, even when leases are outlived.          *)
THEOREM MoneyAlwaysFirst == Spec => []MoneyFirst
<1>1. IInv => MoneyFirst
  BY DEF IInv
<1> QED  BY <1>1, Invariant, PTL
=============================================================================
