-------------------------- MODULE DistributedLock --------------------------
(***************************************************************************)
(* A lock kept in Redis: apps/api/src/redis/distributed-lock.service.ts.   *)
(*                                                                         *)
(* The key holds the random token of whoever has set it, and goes by       *)
(* itself when its time is up, whether its owner is dead or only slow.     *)
(* Nothing renews it, and an owner does not learn that it is gone.         *)
(***************************************************************************)
EXTENDS Integers

CONSTANTS Workers,  \* handlers under way at a time
          None      \* no key, no token

ASSUME NoneAssumption == None \notin Nat

VARIABLES
    key,     \* the token at lock:<key>
    token,   \* token[w]: what worker w has got
    issued,  \* tokens made so far; each is new
    lapsed   \* history: tokens whose time was up before their owner's work was done

lockVars == <<key, token, issued, lapsed>>

LockTypeOK ==
    /\ issued \in Nat
    /\ key \in 1..issued \cup {None}
    /\ token \in [Workers -> 1..issued \cup {None}]
    /\ lapsed \subseteq 1..issued

LockInit ==
    /\ key = None
    /\ token = [w \in Workers |-> None]
    /\ issued = 0
    /\ lapsed = {}

(* Mutant: SET without NX. *)
TryAcquire_Overwrites(w) ==
    /\ issued' = issued + 1
    /\ key' = issued + 1
    /\ token' = [token EXCEPT ![w] = issued + 1]
    /\ UNCHANGED lapsed

(* SET lock:<key> token EX ttl NX *)
TryAcquire(w) ==
    /\ key = None
    /\ issued' = issued + 1
    /\ key' = issued + 1
    /\ token' = [token EXCEPT ![w] = issued + 1]
    /\ UNCHANGED lapsed

(* Mutant: the key is deleted whoever holds it. *)
Release_Unconditional(w) ==
    /\ key' = None
    /\ token' = [token EXCEPT ![w] = None]
    /\ UNCHANGED <<issued, lapsed>>

(* RELEASE_SCRIPT *)
Release(w) ==
    /\ key' = IF key = token[w] THEN None ELSE key
    /\ token' = [token EXCEPT ![w] = None]
    /\ UNCHANGED <<issued, lapsed>>

(* Its owner dies. *)
Abandon(w) ==
    /\ token' = [token EXCEPT ![w] = None]
    /\ UNCHANGED <<key, issued, lapsed>>

Owned == \E w \in Workers : token[w] = key

(* Mutant: a key without EX, which outlives its owner. *)
Lapse_Immortal ==
    /\ key # None /\ Owned
    /\ key' = None
    /\ lapsed' = lapsed \cup {key}
    /\ UNCHANGED <<token, issued>>

Lapse ==
    /\ key # None
    /\ key' = None
    /\ lapsed' = IF Owned THEN lapsed \cup {key} ELSE lapsed
    /\ UNCHANGED <<token, issued>>

LockNext ==
    \/ \E w \in Workers : TryAcquire(w) \/ Release(w) \/ Abandon(w)
    \/ Lapse

(* The key of an owner whose time is not up is his: no other has set it,   *)
(* and no late release of an earlier owner has deleted it.  So at most one *)
(* worker's time is running.                                               *)
LeaseKept == \A w \in Workers : token[w] # None /\ token[w] \notin lapsed => key = token[w]

(* Key, tokens and times to live, Redis's script and the deaths of owners  *)
(* come to no more than a Lease: it passes from one worker to another only *)
(* by way of nobody.                                                       *)
Holders == {w \in Workers : token[w] # None /\ token[w] \notin lapsed}
Lease == INSTANCE Lease WITH holders <- Holders
ImplementsLease == Lease!Spec
=============================================================================
