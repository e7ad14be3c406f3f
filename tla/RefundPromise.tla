--------------------------- MODULE RefundPromise ---------------------------
(***************************************************************************)
(* What giving an order's money back promises, whatever requests, crons,   *)
(* webhooks and crashes interleave: of every part of the price that is     *)
(* due, the buyer gets it back once, in any order and some parts at once;  *)
(* of nothing else he gets anything; no record is marked before all of it  *)
(* is back.  The mark is no promise for ever: where a part was confirmed   *)
(* by an outside party, a late confirmation may take it away, and the      *)
(* money does not move again for that.                                     *)
(* OrderRefund is shown to implement it.                                   *)
(***************************************************************************)
EXTENDS Naturals

CONSTANTS Parts,    \* the parts a price may consist of
          Confirmed \* those whose payment is confirmed from outside

VARIABLES due,      \* the parts that this order owes
          returned, \* returned[p]: how often p was given back
          marks     \* the records that say REFUNDED

vars == <<due, returned, marks>>

Init ==
    /\ due \subseteq Parts
    /\ returned = [p \in Parts |-> 0]
    /\ marks = {}

Return(ps) ==
    /\ ps # {}
    /\ \A p \in ps : returned[p] = 0
    /\ returned' = [p \in Parts |-> IF p \in ps THEN 1 ELSE returned[p]]
    /\ UNCHANGED <<due, marks>>

Mark(m) ==
    /\ \A p \in due : returned[p] = 1
    /\ marks' = marks \cup {m}
    /\ UNCHANGED <<due, returned>>

Unmark(m) ==
    /\ due \cap Confirmed # {}
    /\ marks' = marks \ {m}
    /\ UNCHANGED <<due, returned>>

Next ==
    \/ \E ps \in SUBSET due : Return(ps)
    \/ \E m \in {"order", "payment"} : Mark(m) \/ Unmark(m)

Spec == Init /\ [][Next]_vars
=============================================================================
