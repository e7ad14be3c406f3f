---------------------------- MODULE MCSettlement ----------------------------
EXTENDS Settlement, TLC

CONSTANTS o1, o2, p1, p2, none, admin, job1

Nets == o1 :> 2 @@ o2 :> 1
Shares == o1 :> 1 @@ o2 :> 1
OneOrder == o1 :> 2
OneShare == o1 :> 1

Symmetry == Permutations({admin, job1}) \cup Permutations({p1, p2})
=============================================================================
