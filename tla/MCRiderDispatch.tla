-------------------------- MODULE MCRiderDispatch --------------------------
(* Small instances of RiderDispatch for TLC. *)
EXTENDS RiderDispatch, TLC

CONSTANTS o1, o2, r1, r2, none, admin, cron, auto

Twice == [o \in Orders |-> 2]
=============================================================================
