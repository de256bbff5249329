------------------------------ MODULE KeyLock ------------------------------
(***************************************************************************)
(* What mutexkv.MutexKV promises its callers: one mutex per key.  Each key  *)
(* is free or owned by exactly one process; a free key can be acquired and  *)
(* an owned key can be released by its owner.                               *)
(*                                                                         *)
(* MutexKV.tla implements this specification with a lazily filled table of  *)
(* mutexes; the storage handlers use it as their lock.                      *)
(***************************************************************************)

CONSTANTS Proc,     \* the goroutines that lock keys
          Key,      \* the keys (pool names)
          NoOne     \* not a process: the owner of a free key

VARIABLE owner      \* owner[k]: who holds the mutex of k

Init == owner = [k \in Key |-> NoOne]

Acquire(p, k) ==
    /\ owner[k] = NoOne
    /\ owner' = [owner EXCEPT ![k] = p]

Release(p, k) ==
    /\ owner[k] = p
    /\ owner' = [owner EXCEPT ![k] = NoOne]

Next == \E p \in Proc, k \in Key : Acquire(p, k) \/ Release(p, k)

Spec == Init /\ [][Next]_owner
=============================================================================
