------------------------------- MODULE Lease -------------------------------
(***************************************************************************)
(* What a lock with a time to live promises: at most one worker has a      *)
(* lease, it is given only when nobody has one, and it ends when it is     *)
(* given back, its owner dies or its time is up.  It is no promise about   *)
(* what an owner does after that.                                          *)
(***************************************************************************)
CONSTANT Workers

VARIABLE holders  \* the workers whose lease is running

Init == holders = {}

Give(w) == holders = {} /\ holders' = {w}

End == holders # {} /\ holders' = {}

Next == (\E w \in Workers : Give(w)) \/ End

Spec == Init /\ [][Next]_holders
=============================================================================
