--------------------------- MODULE MCOrderRefund ---------------------------
(* Small instances of OrderRefund for TLC. *)
EXTENDS OrderRefund, TLC

CONSTANTS buyer, cron, created, processed, captured

ByRazorpay == [rzp |-> TRUE, wallet |-> FALSE, points |-> FALSE]
ByBoth == [rzp |-> TRUE, wallet |-> TRUE, points |-> FALSE]
ByWallet == [rzp |-> FALSE, wallet |-> TRUE, points |-> FALSE]
ByBothAndPoints == [rzp |-> TRUE, wallet |-> TRUE, points |-> TRUE]

ByRazorpayAndPoints == [rzp |-> TRUE, wallet |-> FALSE, points |-> TRUE]
AllSplits == {ByRazorpay, ByWallet, ByBoth, ByBothAndPoints, ByRazorpayAndPoints}
=============================================================================
