--------------------------- MODULE MutexKVProofs ---------------------------
(***************************************************************************)
(* For any set of goroutines, keys and mutexes: the table of mutexes is     *)
(* well typed, keeps at most one goroutine in the section of a key, unlocks *)
(* only what was locked, and implements one lock per key.                   *)
(*                                                                         *)
(* The strengthening says which mutex each goroutine works on: the table is *)
(* injective and never forgets, whoever is past get holds the table's mutex *)
(* of its key, and a mutex is held exactly by a goroutine in a section of   *)
(* the key the table has it for.                                            *)
(***************************************************************************)
EXTENDS MutexKV, TLAPS

InGet == {"lock.lookup", "lock.insert", "unlock.lookup"}

PastGet == {"lock.wait", "critical", "unlock.get", "unlock.lookup", "unlock.release"}

\* The table's lock is held exactly by the goroutine inside get.
GuardInv == \A p \in Proc : guard = p <=> pc[p] \in InGet

\* No two keys share a mutex.
TableInv == \A k, l \in Key : store[k] = store[l] /\ store[k] # Nil => k = l

\* What get returned is, and stays, the table's mutex of the key.
ReturnedInv == \A p \in Proc :
    /\ pc[p] \in PastGet => mutex[p] = store[key[p]] /\ store[key[p]] # Nil
    /\ pc[p] = "lock.insert" => store[key[p]] = Nil

\* A goroutine in a section holds its mutex.
HoldsInv == \A p \in Proc : pc[p] \in Holding => held[mutex[p]] = p

\* A held mutex is in the table, held by a goroutine in its key's section.
HeldInv == \A m \in Mutex, p \in Proc :
    held[m] = p => pc[p] \in Holding /\ mutex[p] = m

IInv == TypeOK /\ GuardInv /\ TableInv /\ ReturnedInv /\ HoldsInv /\ HeldInv

LEMMA InitInv == Init => IInv
  BY NoOneAssumption, NilAssumption
     DEF Init, IInv, TypeOK, GuardInv, TableInv, ReturnedInv, HoldsInv, HeldInv,
         Label, InGet, PastGet, Holding

\* The two steps that matter: inserting a fresh mutex keeps the table injective
\* and gives nobody a mutex that is held; and a mutex is taken only when free.

LEMMA InsertInv ==
  ASSUME IInv, NEW p \in Proc, GetInsert(p, "lock.insert", "lock.wait")
  PROVE  IInv'
  <1> USE NoOneAssumption, NilAssumption
      DEF IInv, InGet, PastGet, Holding
  <1>1. PICK m \in Unallocated : store' = [store EXCEPT ![key[p]] = m]
                              /\ mutex' = [mutex EXCEPT ![p] = m]
    BY DEF GetInsert
  <1>2. m \in Mutex /\ \A k \in Key : store[k] # m
    BY DEF Unallocated
  <1>3. /\ pc[p] = "lock.insert"
        /\ pc' = [pc EXCEPT ![p] = "lock.wait"]
        /\ guard' = NoOne
        /\ UNCHANGED <<held, key>>
    BY DEF GetInsert
  <1>4. TypeOK'
    BY <1>1, <1>2, <1>3 DEF TypeOK, Label
  <1>5. GuardInv'
    BY <1>3 DEF GuardInv, TypeOK
  <1>6. TableInv'
    BY <1>1, <1>2 DEF TableInv, TypeOK
  <1>7. ReturnedInv'
    <2>1. ASSUME NEW q \in Proc, q # p
          PROVE  key[q] = key[p] => pc[q] \notin PastGet /\ pc[q] # "lock.insert"
      BY <1>3, <2>1 DEF ReturnedInv, GuardInv
    <2>2. QED
      BY <1>1, <1>2, <1>3, <2>1 DEF ReturnedInv, TypeOK
  <1>8. HoldsInv'
    BY <1>1, <1>3 DEF HoldsInv, TypeOK
  <1>9. HeldInv'
    BY <1>1, <1>3 DEF HeldInv, TypeOK
  <1>10. QED
    BY <1>4, <1>5, <1>6, <1>7, <1>8, <1>9

LEMMA LockMutexInv ==
  ASSUME IInv, NEW p \in Proc, LockMutex(p)
  PROVE  IInv'
  <1> USE NoOneAssumption, NilAssumption
      DEF IInv, TypeOK, InGet, PastGet, Holding, LockMutex
  <1>1. mutex[p] \in Mutex /\ held[mutex[p]] = NoOne
    BY DEF ReturnedInv
  <1>2. TypeOK'
    BY <1>1 DEF Label
  <1>3. GuardInv' /\ TableInv' /\ ReturnedInv'
    BY DEF GuardInv, TableInv, ReturnedInv
  <1>4. HoldsInv'
    BY <1>1 DEF HoldsInv
  <1>5. HeldInv'
    BY <1>1 DEF HeldInv
  <1>6. QED
    BY <1>2, <1>3, <1>4, <1>5

LEMMA StepInv == IInv /\ [Next]_vars => IInv'
  <1> SUFFICES ASSUME IInv, [Next]_vars PROVE IInv'
    OBVIOUS
  <1> USE NoOneAssumption, NilAssumption
      DEF IInv, TypeOK, GuardInv, TableInv, ReturnedInv, HoldsInv, HeldInv,
          Label, InGet, PastGet, Holding
  <1>1. ASSUME NEW p \in Proc, NEW k \in Key, CallLock(p, k) PROVE IInv'
    BY <1>1 DEF CallLock
  <1>2. ASSUME NEW p \in Proc, CallUnlock(p) PROVE IInv'
    BY <1>2 DEF CallUnlock
  <1>3. ASSUME NEW p \in Proc, GetLockTable(p, "lock.get", "lock.lookup") PROVE IInv'
    BY <1>3 DEF GetLockTable
  <1>4. ASSUME NEW p \in Proc, GetLookup(p, "lock.lookup", "lock.insert", "lock.wait")
        PROVE IInv'
    BY <1>4 DEF GetLookup
  <1>5. ASSUME NEW p \in Proc, GetInsert(p, "lock.insert", "lock.wait") PROVE IInv'
    BY <1>5, InsertInv
  <1>6. ASSUME NEW p \in Proc, LockMutex(p) PROVE IInv'
    BY <1>6, LockMutexInv
  <1>7. ASSUME NEW p \in Proc, GetLockTable(p, "unlock.get", "unlock.lookup") PROVE IInv'
    BY <1>7 DEF GetLockTable
  <1>8. ASSUME NEW p \in Proc,
               GetLookup(p, "unlock.lookup", "unlock.insert", "unlock.release")
        PROVE IInv'
    BY <1>8 DEF GetLookup
  <1>9. ASSUME NEW p \in Proc, UnlockMutex(p) PROVE IInv'
    BY <1>9 DEF UnlockMutex
  <1>10. CASE UNCHANGED vars
    BY <1>10 DEF vars
  <1>11. QED
    BY <1>1, <1>2, <1>3, <1>4, <1>5, <1>6, <1>7, <1>8, <1>9, <1>10 DEF Next, Lock, Unlock

LEMMA Invariance == Spec => []IInv
  BY InitInv, StepInv, PTL DEF Spec

\* The state is well typed; in particular Unlock's get always finds the key.
THEOREM TypeCorrect == Spec => []TypeOK
  <1>1. IInv => TypeOK
    BY DEF IInv
  <1>2. QED
    BY <1>1, Invariance, PTL

\* Two goroutines are never in the section of one key, whoever used the key first, and
\* Unlock releases a mutex that this goroutine holds.
THEOREM Exclusion == Spec => []SectionsAreSafe
  <1>1. IInv => MutualExclusion
    BY DEF IInv, TypeOK, ReturnedInv, HoldsInv, PastGet, Holding, MutualExclusion
  <1>2. IInv => UnlocksItsOwn
    BY DEF IInv, HoldsInv, Holding, UnlocksItsOwn
  <1>3. QED
    BY <1>1, <1>2, Invariance, PTL DEF SectionsAreSafe

-----------------------------------------------------------------------------
(* Who waits for whom.                                                      *)

\* A goroutine that cannot take its next step before another one has.
Waits(p) ==
    \/ pc[p] \in {"lock.get", "unlock.get"} /\ guard # NoOne
    \/ pc[p] = "lock.wait" /\ held[mutex[p]] # NoOne

\* A goroutine that has called Lock and not yet returned from Unlock.
Busy(p) == pc[p] # "idle"

\* Whoever waits in Lock or Unlock does so while another goroutine works which waits for
\* nobody: no number of goroutines and keys closes a circle of the two kinds of mutexes,
\* although Unlock asks for the table's lock with the key's mutex held.
NoCircularWait == \A p \in Proc : Waits(p) => \E q \in Proc \ {p} : Busy(q) /\ ~Waits(q)

\* The holder of the table's lock waits for nobody.
LEMMA GuardWorks ==
  ASSUME IInv, guard # NoOne
  PROVE  guard \in Proc /\ pc[guard] \in InGet /\ Busy(guard) /\ ~Waits(guard)
  BY DEF IInv, TypeOK, GuardInv, InGet, Busy, Waits

\* The holder of a mutex is in the section of its key.
LEMMA HolderWorks ==
  ASSUME IInv, NEW m \in Mutex, held[m] # NoOne
  PROVE  held[m] \in Proc /\ pc[held[m]] \in Holding
  BY DEF IInv, TypeOK, HeldInv

\* No deadlock: a goroutine that waits for a mutex waits for one that does not wait.
THEOREM NoDeadlock == Spec => []NoCircularWait
  <1>1. ASSUME IInv, NEW p \in Proc, Waits(p)
        PROVE  \E q \in Proc \ {p} : Busy(q) /\ ~Waits(q)
    <2>1. CASE guard # NoOne
      <3>1. pc[p] \notin InGet
        BY <1>1 DEF Waits, InGet
      <3> QED
        BY <1>1, <2>1, <3>1, GuardWorks
    <2>2. CASE guard = NoOne
      <3>1. pc[p] = "lock.wait" /\ held[mutex[p]] # NoOne
        BY <1>1, <2>2 DEF Waits
      <3>2. mutex[p] \in Mutex
        BY <1>1, <3>1 DEF IInv, TypeOK, ReturnedInv, PastGet
      <3> DEFINE q == held[mutex[p]]
      <3>3. q \in Proc /\ pc[q] \in Holding
        BY <1>1, <3>1, <3>2, HolderWorks
      <3>4. q # p /\ Busy(q) /\ ~Waits(q)
        BY <2>2, <3>1, <3>3 DEF Holding, Busy, Waits
      <3> QED
        BY <3>3, <3>4
    <2> QED
      BY <2>1, <2>2
  <1>2. IInv => NoCircularWait
    BY <1>1 DEF NoCircularWait
  <1> QED
    BY <1>2, Invariance, PTL

-----------------------------------------------------------------------------
(* The table implements KeyLock: taking a mutex acquires its key, releasing *)
(* it releases the key, every other step leaves the owners alone.           *)

LEMMA InitRefines == Init => KL!Init
  BY DEF Init, KL!Init, owner

LEMMA StepRefines == IInv /\ [Next]_vars => [KL!Next]_owner
  <1> SUFFICES ASSUME IInv, [Next]_vars PROVE KL!Next \/ UNCHANGED owner
    OBVIOUS
  <1> USE NoOneAssumption, NilAssumption
      DEF IInv, TypeOK, TableInv, ReturnedInv, HoldsInv, HeldInv, PastGet, Holding
  <1>1. ASSUME NEW p \in Proc, LockMutex(p) PROVE KL!Acquire(p, key[p])
    BY <1>1 DEF LockMutex, KL!Acquire, owner
  <1>2. ASSUME NEW p \in Proc, UnlockMutex(p) PROVE KL!Release(p, key[p])
    BY <1>2 DEF UnlockMutex, KL!Release, owner
  <1>3. ASSUME NEW p \in Proc, GetInsert(p, "lock.insert", "lock.wait")
        PROVE  UNCHANGED owner
    \* The fresh mutex is free, like the key was.
    <2>1. PICK m \in Unallocated : store' = [store EXCEPT ![key[p]] = m]
      BY <1>3 DEF GetInsert
    <2>2. m \in Mutex /\ held[m] = NoOne /\ store[key[p]] = Nil
      BY <1>3, <2>1 DEF GetInsert, Unallocated
    <2>3. QED
      BY <1>3, <2>1, <2>2 DEF GetInsert, owner
  <1>4. ASSUME UNCHANGED <<store, held>> PROVE UNCHANGED owner
    BY <1>4 DEF owner
  <1>5. QED
    BY <1>1, <1>2, <1>3, <1>4
       DEF Next, Lock, Unlock, vars, CallLock, CallUnlock, GetLockTable, GetLookup, KL!Next

\* Seen from its callers, MutexKV is one lock per key.
THEOREM Implementation == Spec => ImplementsKeyLock
  BY InitRefines, StepRefines, Invariance, PTL DEF Spec, KL!Spec, ImplementsKeyLock
=============================================================================
