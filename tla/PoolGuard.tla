----------------------------- MODULE PoolGuard -----------------------------
(***************************************************************************)
(* What the pool mutexes are for: the volumes of a pool are changed by one  *)
(* handler at a time, the one that owns the pool.  Handlers of different    *)
(* pools do not wait for each other.                                        *)
(*                                                                         *)
(* A handler that owns a pool creates volumes in its own name only, writes  *)
(* its own source only, and never changes a volume of another pool.         *)
(* Somebody outside the provider may delete volumes, and the process may    *)
(* die (Reset); nothing else touches the volumes.                           *)
(***************************************************************************)

CONSTANTS Pool, Key, KeyPool, Resource, Foreign, None, Outside, ByHand

VARIABLES owner, vols, data

guardVars == <<owner, vols, data>>

Init ==
    /\ owner = [p \in Pool |-> None]
    /\ vols \in [Key -> {Foreign, None}]
    /\ data = [k \in Key |-> None]

Acquire(r, p) ==
    /\ owner[p] = None
    /\ owner' = [owner EXCEPT ![p] = r]
    /\ UNCHANGED <<vols, data>>

\* The owner works on the volumes of its pool, and may leave with that step.
Work(r, p) ==
    /\ owner[p] = r
    /\ owner' \in {owner, [owner EXCEPT ![p] = None]}
    /\ vols' \in [Key -> Resource \union {Foreign, None}]
    /\ data' \in [Key -> Resource \union {None}]
    /\ \A k \in Key :
         IF KeyPool[k] = p
           THEN vols'[k] \in {vols[k], r, None} /\ data'[k] \in {data[k], r, None}
           ELSE vols'[k] = vols[k] /\ data'[k] = data[k]

Vanish(k) ==
    /\ k \in ByHand
    /\ vols' = [vols EXCEPT ![k] = None]
    /\ data' = [data EXCEPT ![k] = None]
    /\ owner' = owner

Reset ==
    /\ "crash" \in Outside
    /\ owner' = [p \in Pool |-> None]
    /\ UNCHANGED <<vols, data>>

Next ==
    \/ \E r \in Resource, p \in Pool : Acquire(r, p) \/ Work(r, p)
    \/ \E k \in Key : Vanish(k)
    \/ Reset

Spec == Init /\ [][Next]_guardVars
=============================================================================
