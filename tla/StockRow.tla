------------------------------ MODULE StockRow ------------------------------
(***************************************************************************)
(* One row of the `inventory` table and the SQL updates that the inventory *)
(* service runs on it (apps/api/src/modules/inventory).  `available` is    *)
(* the column `quantity`: the units that can still be sold, not the units  *)
(* in the shop.  The operators are the SET and WHERE clauses; the modules  *)
(* that extend this one say when they run.                                 *)
(***************************************************************************)
EXTENDS Integers

InventoryStatus == {"ACTIVE", "OUT_OF_STOCK", "DISABLED"}

StockRows == [available : Nat, reserved : Nat, sold : Nat, status : InventoryStatus]

(* GREATEST(0, a - b) *)
Monus(a, b) == IF a > b THEN a - b ELSE 0

(* Mutants, for checking that the properties can fail. *)
CanReserve_NoQuantityCheck(row, n) == row.status = "ACTIVE"
ReleaseRow_StatusKept(row, n) ==
    [row EXCEPT !.available = @ + n, !.reserved = Monus(@, n)]
ReleaseRow_Relisted(row, n) ==
    [row EXCEPT !.available = @ + n, !.reserved = Monus(@, n), !.status = "ACTIVE"]
ReserveRow_QuantityKept(row, n) == [row EXCEPT !.reserved = @ + n]
FulfilRow_SaleLost(row, n) == [row EXCEPT !.reserved = Monus(@, n)]

(* The WHERE clause of the conditional UPDATE of reserveForCheckout. *)
CanReserve(row, n) == row.status = "ACTIVE" /\ row.available >= n

ReserveRow(row, n) ==
    [available |-> row.available - n,
     reserved  |-> row.reserved + n,
     sold      |-> row.sold,
     status    |-> IF row.available - n <= 0 THEN "OUT_OF_STOCK" ELSE row.status]

(* releaseByCheckout and releaseByOrder run the same UPDATE: no WHERE on   *)
(* the reservation, only on the variant.                                   *)
ReleaseRow(row, n) ==
    [available |-> row.available + n,
     reserved  |-> Monus(row.reserved, n),
     sold      |-> row.sold,
     status    |-> IF row.status = "DISABLED" THEN row.status
                   ELSE IF row.available + n > 0 THEN "ACTIVE"
                   ELSE "OUT_OF_STOCK"]

FulfilRow(row, n) ==
    [available |-> row.available,
     reserved  |-> Monus(row.reserved, n),
     sold      |-> row.sold + n,
     status    |-> IF /\ row.status # "DISABLED"
                      /\ row.available <= 0
                      /\ Monus(row.reserved, n) <= 0
                   THEN "OUT_OF_STOCK" ELSE row.status]

(* The absolute write of adjustAvailableQty; `seen` is the status that the *)
(* preceding findUnique returned.                                          *)
AdjustRow(row, n, seen) ==
    [available |-> n,
     reserved  |-> row.reserved,
     sold      |-> row.sold,
     status    |-> IF seen = "DISABLED" THEN "DISABLED"
                   ELSE IF n <= 0 THEN "OUT_OF_STOCK" ELSE "ACTIVE"]
=============================================================================
