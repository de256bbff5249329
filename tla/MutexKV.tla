------------------------------ MODULE MutexKV ------------------------------
(***************************************************************************)
(* libvirt/helper/mutexkv/mutexkv.go: a table of mutexes indexed by key.    *)
(*                                                                         *)
(* A mutex is allocated the first time its key is asked for (get), under    *)
(* the table's own lock; Lock and Unlock then work on the mutex that get    *)
(* returned, outside that lock.  A process here is a goroutine that runs    *)
(* one resource handler at a time: it locks one key, works, unlocks it.     *)
(***************************************************************************)
EXTENDS Naturals

CONSTANTS Proc,     \* goroutines
          Key,      \* keys of the table
          Mutex,    \* the heap: sync.Mutex objects that get may allocate
          NoOne,    \* not a process
          Nil       \* not a mutex: the key is not in the table

ASSUME NoOneAssumption == NoOne \notin Proc
ASSUME NilAssumption == Nil \notin Mutex

VARIABLES store,    \* MutexKV.store: the mutex of each key, or Nil
          guard,    \* MutexKV.lock: who holds the lock of the table
          held,     \* the state of every mutex: who holds it
          pc,       \* where each goroutine is
          key,      \* the argument of the call it is in
          mutex     \* the local variable of get, then what get returned

vars == <<store, guard, held, pc, key, mutex>>

Label == {"idle", "lock.get", "lock.lookup", "lock.insert", "lock.wait", "critical",
          "unlock.get", "unlock.lookup", "unlock.release"}

\* The type of the state.  "unlock.insert" is no label: Unlock's own call of
\* get always finds the key that Lock put in the table, so it never allocates
\* a second, unlocked mutex (unlocking that one would abort the program).
TypeOK ==
    /\ store \in [Key -> Mutex \union {Nil}]
    /\ guard \in Proc \union {NoOne}
    /\ held \in [Mutex -> Proc \union {NoOne}]
    /\ pc \in [Proc -> Label]
    /\ key \in [Proc -> Key]
    /\ mutex \in [Proc -> Mutex \union {Nil}]

Init ==
    /\ store = [k \in Key |-> Nil]
    /\ guard = NoOne
    /\ held = [m \in Mutex |-> NoOne]
    /\ pc = [p \in Proc |-> "idle"]
    /\ key \in [Proc -> Key]
    /\ mutex = [p \in Proc |-> Nil]

-----------------------------------------------------------------------------
(* A handler calls Lock(k); once it holds the key it returns through the    *)
(* deferred Unlock(k).                                                      *)

CallLock(p, k) ==
    /\ pc[p] = "idle"
    /\ pc' = [pc EXCEPT ![p] = "lock.get"]
    /\ key' = [key EXCEPT ![p] = k]
    /\ UNCHANGED <<store, guard, held, mutex>>

CallUnlock(p) ==
    /\ pc[p] = "critical"
    /\ pc' = [pc EXCEPT ![p] = "unlock.get"]
    /\ UNCHANGED <<store, guard, held, key, mutex>>

-----------------------------------------------------------------------------
(* get: the table's lock is held from the lookup to the return.  (A comment   *)
(* "Bug:" marks a variant the properties are tried on; no action uses it.)   *)

\* Bug: get reads and fills the table without taking its lock.
GetLockTableUnlocked(p, here, next) ==
    /\ pc[p] = here
    /\ pc' = [pc EXCEPT ![p] = next]
    /\ UNCHANGED <<store, guard, held, key, mutex>>

GetLockTable(p, here, next) ==
    /\ pc[p] = here
    /\ guard = NoOne
    /\ guard' = p
    /\ pc' = [pc EXCEPT ![p] = next]
    /\ UNCHANGED <<store, held, key, mutex>>

GetLookup(p, here, missing, found) ==
    /\ pc[p] = here
    /\ mutex' = [mutex EXCEPT ![p] = store[key[p]]]
    /\ IF store[key[p]] = Nil
         THEN pc' = [pc EXCEPT ![p] = missing] /\ guard' = guard
         ELSE pc' = [pc EXCEPT ![p] = found] /\ guard' = NoOne
    /\ UNCHANGED <<store, held, key>>

\* mutex = &sync.Mutex{}: an object nothing refers to yet.
Unallocated == {m \in Mutex : \A k \in Key : store[k] # m}

\* Bug: the new mutex is returned but not put in the table.
GetInsertForgets(p, here, next) ==
    /\ pc[p] = here
    /\ \E m \in Unallocated : mutex' = [mutex EXCEPT ![p] = m]
    /\ guard' = NoOne
    /\ pc' = [pc EXCEPT ![p] = next]
    /\ UNCHANGED <<store, held, key>>

\* Bug: a mutex that another key uses is handed out again.
GetInsertShares(p, here, next) ==
    /\ pc[p] = here
    /\ \E m \in Mutex :
         /\ store' = [store EXCEPT ![key[p]] = m]
         /\ mutex' = [mutex EXCEPT ![p] = m]
    /\ guard' = NoOne
    /\ pc' = [pc EXCEPT ![p] = next]
    /\ UNCHANGED <<held, key>>

GetInsert(p, here, next) ==
    /\ pc[p] = here
    /\ \E m \in Unallocated :
         /\ store' = [store EXCEPT ![key[p]] = m]
         /\ mutex' = [mutex EXCEPT ![p] = m]
    /\ guard' = NoOne
    /\ pc' = [pc EXCEPT ![p] = next]
    /\ UNCHANGED <<held, key>>

-----------------------------------------------------------------------------
(* The tail of Lock and Unlock, on the mutex that get returned.             *)

LockMutex(p) ==
    /\ pc[p] = "lock.wait"
    /\ held[mutex[p]] = NoOne
    /\ held' = [held EXCEPT ![mutex[p]] = p]
    /\ pc' = [pc EXCEPT ![p] = "critical"]
    /\ UNCHANGED <<store, guard, key, mutex>>

\* Bug: Unlock looks the mutex up but does not release it.
UnlockMutexKeeps(p) ==
    /\ pc[p] = "unlock.release"
    /\ pc' = [pc EXCEPT ![p] = "idle"]
    /\ mutex' = [mutex EXCEPT ![p] = Nil]
    /\ UNCHANGED <<store, guard, held, key>>

UnlockMutex(p) ==
    /\ pc[p] = "unlock.release"
    /\ held' = [held EXCEPT ![mutex[p]] = NoOne]
    /\ pc' = [pc EXCEPT ![p] = "idle"]
    /\ mutex' = [mutex EXCEPT ![p] = Nil]
    /\ UNCHANGED <<store, guard, key>>

-----------------------------------------------------------------------------

Lock(p) ==
    \/ GetLockTable(p, "lock.get", "lock.lookup")
    \/ GetLookup(p, "lock.lookup", "lock.insert", "lock.wait")
    \/ GetInsert(p, "lock.insert", "lock.wait")
    \/ LockMutex(p)

Unlock(p) ==
    \/ GetLockTable(p, "unlock.get", "unlock.lookup")
    \/ GetLookup(p, "unlock.lookup", "unlock.insert", "unlock.release")
    \/ UnlockMutex(p)

Next == \E p \in Proc :
    \/ \E k \in Key : CallLock(p, k)
    \/ CallUnlock(p)
    \/ Lock(p)
    \/ Unlock(p)

Spec == Init /\ [][Next]_vars

(***************************************************************************)
(* A goroutine inside Lock or Unlock is scheduled, and sync.Mutex hands the *)
(* lock to a waiter that has waited for more than a millisecond: strong     *)
(* fairness for the two lock acquisitions.  A handler that holds a key      *)
(* returns (the storage modules show it), so CallUnlock is fair too.        *)
(***************************************************************************)
Fairness == \A p \in Proc :
    /\ WF_vars(CallUnlock(p))
    /\ SF_vars(Lock(p))
    /\ SF_vars(Unlock(p))

FairSpec == Spec /\ Fairness

-----------------------------------------------------------------------------
(* Properties.                                                              *)

Holding == {"critical", "unlock.get", "unlock.lookup", "unlock.release"}

\* Two handlers never work on the same key at once (what the callers of Lock
\* rely on), although each got its mutex from its own call of get.
MutualExclusion == \A p, q \in Proc :
    /\ pc[p] \in Holding
    /\ pc[q] \in Holding
    /\ key[p] = key[q]
    => p = q

\* The mutex that Unlock releases is the one this goroutine's Lock acquired:
\* sync.Mutex aborts the program when an unlocked mutex is unlocked, and frees
\* somebody else's section when it is the wrong one.
UnlocksItsOwn == \A p \in Proc :
    pc[p] = "unlock.release" => held[mutex[p]] = p

\* A section is entered by one goroutine, and left by the goroutine that entered it.
SectionsAreSafe == MutualExclusion /\ UnlocksItsOwn

\* Lock(k) returns: no order of first uses, locks and unlocks leaves a
\* goroutine waiting for ever, provided the holders of the key return.
LockReturns == \A p \in Proc : (pc[p] = "lock.get") ~> (pc[p] = "critical")

\* The table of mutexes implements one lock per key.
owner == [k \in Key |-> IF store[k] = Nil THEN NoOne ELSE held[store[k]]]

KL == INSTANCE KeyLock

\* "a simple key/value store for arbitrary mutexes" (mutexkv.go:8): seen from
\* its callers, every behaviour is one of the abstract lock per key.
ImplementsKeyLock == KL!Spec
=============================================================================
