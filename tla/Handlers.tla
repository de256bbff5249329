------------------------------ MODULE Handlers ------------------------------
(***************************************************************************)
(* What every storage handler of the provider has in common: the schema.    *)
(* ResourceData it works on, the pool mutex it takes and releases by defer, *)
(* the libvirt calls it makes one after the other.                          *)
(*                                                                         *)
(* A resource runs at most one handler at a time (Terraform's graph walk),  *)
(* so the local state of handlers is indexed by resources.  Between two     *)
(* calls of a handler every other handler of the process may take steps.    *)
(***************************************************************************)
EXTENDS LibvirtStorage

CONSTANTS PoolRes,      \* libvirt_pool resources
          VolumeRes,    \* libvirt_volume resources
          CloudinitRes, \* libvirt_cloudinit_disk resources
          IgnitionRes,  \* libvirt_ignition resources
          PoolName,     \* PoolName[r]: attribute "name" of the pool resource r
          KeyOf,        \* KeyOf[r]: attributes "pool" and "name" of the others
          Faults        \* may a libvirt call, an XSLT run or an image access fail?

DiskRes == CloudinitRes \union IgnitionRes
VolLike == VolumeRes \union DiskRes

ASSUME ResourceAssumption ==
    /\ Resource = PoolRes \union VolLike
    /\ PoolRes \intersect VolLike = {}
    /\ VolumeRes \intersect DiskRes = {}
    /\ CloudinitRes \intersect IgnitionRes = {}
    /\ PoolName \in [PoolRes -> Pool]
    /\ KeyOf \in [VolLike -> Key]
    /\ Faults \in BOOLEAN

\* The pool that a resource's handlers lock.
PoolOf(r) == IF r \in PoolRes THEN PoolName[r] ELSE KeyPool[KeyOf[r]]

VARIABLES lock,     \* Client.poolMutexKV: who holds the mutex of each pool
          pc,       \* the next call of each resource's handler
          op,       \* the operation that handler performs
          handle,   \* the UUID in the handler's libvirt.StoragePool
          d,        \* ResourceData.Id()
          state     \* the id in Terraform's state, saved when a handler returns

handlerVars == <<lock, pc, op, handle, d, state>>
vars == <<libvirtVars, handlerVars>>

PoolMutex == INSTANCE KeyLock WITH owner <- lock, Proc <- Resource, Key <- Pool, NoOne <- None

HandlersInit ==
    /\ PoolMutex!Init
    /\ pc = [r \in Resource |-> "idle"]
    /\ op = [r \in Resource |-> "none"]
    /\ handle = [r \in Resource |-> None]
    /\ d = [r \in Resource |-> None]
    /\ state = [r \in Resource |-> None]

\* A call fails for a reason the model does not describe.
MayFail == Faults

Goto(r, next) ==
    /\ pc' = [pc EXCEPT ![r] = next]
    /\ UNCHANGED <<lock, op, handle, d, state>>

GotoWithHandle(r, next, u) ==
    /\ pc' = [pc EXCEPT ![r] = next]
    /\ handle' = [handle EXCEPT ![r] = u]
    /\ UNCHANGED <<lock, op, d, state>>

\* d.SetId(id) and go on.
GotoWithId(r, next, id) ==
    /\ pc' = [pc EXCEPT ![r] = next]
    /\ d' = [d EXCEPT ![r] = id]
    /\ UNCHANGED <<lock, op, handle, state>>

\* client.poolMutexKV.Lock(poolName)
Lock(r, here, next) ==
    /\ pc[r] = here
    /\ PoolMutex!Acquire(r, PoolOf(r))
    /\ pc' = [pc EXCEPT ![r] = next]
    /\ UNCHANGED <<libvirtVars, op, handle, d, state>>

Unlocked(r) == [p \in Pool |-> IF lock[p] = r THEN None ELSE lock[p]]

\* Bug: a handler returns without the deferred Unlock.  (Here and in the modules of
\* the handlers, "Bug:" marks a variant that the properties are tried on; no action
\* uses it.)
ReturnLocked(r, id) ==
    /\ pc' = [pc EXCEPT ![r] = "idle"]
    /\ op' = [op EXCEPT ![r] = "none"]
    /\ handle' = [handle EXCEPT ![r] = None]
    /\ d' = [d EXCEPT ![r] = id]
    /\ state' = [state EXCEPT ![r] = id]
    /\ UNCHANGED lock

\* The handler returns, with or without an error, and ResourceData has this id:
\* the deferred Unlock runs and Terraform saves the id ("" removes the resource
\* from the state; after a failed create a saved id is a tainted resource).
Return(r, id) ==
    /\ lock' = Unlocked(r)
    /\ pc' = [pc EXCEPT ![r] = "idle"]
    /\ op' = [op EXCEPT ![r] = "none"]
    /\ handle' = [handle EXCEPT ![r] = None]
    /\ d' = [d EXCEPT ![r] = id]
    /\ state' = [state EXCEPT ![r] = id]

\* return diag.FromErr(err): the id is what it was.
ReturnError(r) == Return(r, d[r]) /\ UNCHANGED libvirtVars

Begin(r, kind, next) ==
    /\ op[r] = "none"
    /\ op' = [op EXCEPT ![r] = kind]
    /\ pc' = [pc EXCEPT ![r] = next]
    /\ UNCHANGED <<libvirtVars, lock, handle, d, state>>
=============================================================================
