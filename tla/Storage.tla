------------------------------ MODULE Storage ------------------------------
(***************************************************************************)
(* The storage resources of the provider together: Terraform starts their   *)
(* handlers, the handlers interleave call by call, and somebody outside may *)
(* work on the same libvirt daemon.                                         *)
(*                                                                         *)
(* Terraform walks its graph once to refresh and once to apply, so reads    *)
(* of the refresh and creates or deletes never run at the same time; within *)
(* a walk, resources that do not refer to each other (a pool that is named  *)
(* by a literal, the pool "default") run in any order and in parallel.      *)
(***************************************************************************)
EXTENDS PoolResource, VolumeResource, DiskResource

CONSTANTS Outside,  \* what may happen behind Terraform's back
          ByHand    \* the volumes that somebody may delete behind Terraform's back

ASSUME OutsideAssumption ==
    /\ Outside \subseteq {"stop", "undefine", "crash"}
    /\ ByHand \subseteq Key

Init == LibvirtInit /\ HandlersInit

-----------------------------------------------------------------------------
(* Terraform.                                                               *)

Refreshing == \E r \in Resource : op[r] = "read"
Applying == \E r \in Resource : op[r] \in {"create", "delete"}

CreateLabel(r) == IF r \in PoolRes THEN "pool.lock"
                  ELSE IF r \in VolumeRes THEN "vol.lock" ELSE "disk.lookup"

ReadLabel(r) == IF r \in PoolRes THEN "poolread"
                ELSE IF r \in VolumeRes THEN "volread.lookup" ELSE "diskread.lookup"

DeleteLabel(r) == IF r \in PoolRes THEN "pooldel.lookup" ELSE "del.lookup"

BeginCreate(r) == state[r] = None /\ ~Refreshing /\ Begin(r, "create", CreateLabel(r))

BeginRead(r) == state[r] # None /\ ~Applying /\ Begin(r, "read", ReadLabel(r))

BeginDelete(r) == state[r] # None /\ ~Refreshing /\ Begin(r, "delete", DeleteLabel(r))

HandlerStep(r) ==
    \/ r \in PoolRes /\ PoolStep(r)
    \/ r \in VolumeRes /\ VolumeStep(r)
    \/ r \in DiskRes /\ DiskStep(r)
    \/ r \in VolLike /\ DeleteStep(r)

-----------------------------------------------------------------------------
(* Behind Terraform's back: an operator with virsh, a reboot of the host    *)
(* that leaves a pool stopped, the end of the provider's process.           *)

OutsideStop(p) ==
    /\ "stop" \in Outside
    /\ StoragePoolDestroy(p, puid[p])
    /\ UNCHANGED handlerVars

OutsideDelete(k) ==
    /\ k \in ByHand
    /\ StorageVolDelete(k)
    /\ UNCHANGED handlerVars

OutsideUndefine(p) ==
    /\ "undefine" \in Outside
    /\ \A k \in Key : KeyPool[k] = p => vols[k] = None
    /\ StoragePoolUndefine(p, puid[p])
    /\ UNCHANGED handlerVars

\* The handlers are lost, and with them the mutexes; the state file is not.
Crash ==
    /\ "crash" \in Outside
    /\ lock' = [p \in Pool |-> None]
    /\ pc' = [r \in Resource |-> "idle"]
    /\ op' = [r \in Resource |-> "none"]
    /\ handle' = [r \in Resource |-> None]
    /\ d' = state
    /\ UNCHANGED <<libvirtVars, state>>

OutsideStep ==
    \/ \E p \in Pool : OutsideStop(p) \/ OutsideUndefine(p)
    \/ \E k \in Key : OutsideDelete(k)
    \/ Crash

-----------------------------------------------------------------------------

Next ==
    \/ \E r \in Resource : BeginCreate(r) \/ BeginRead(r) \/ BeginDelete(r) \/ HandlerStep(r)
    \/ OutsideStep

Spec == Init /\ [][Next]_vars

(***************************************************************************)
(* A handler that has begun goes on: every libvirt call answers, and each   *)
(* loop ends, with success or at its timeout.  sync.Mutex is fair to a      *)
(* waiter, so a handler that waits for a lock which is free again and again *)
(* gets it: strong fairness.  Nothing makes Terraform begin an operation.   *)
(***************************************************************************)
Fairness == \A r \in Resource : SF_vars(HandlerStep(r))

FairSpec == Spec /\ Fairness

-----------------------------------------------------------------------------
(* Types.                                                                   *)

PoolSection == {"pool.lookup", "pool.define", "pool.build", "pool.start", "pool.refresh",
                "pool.wait", "pooldel.info", "pooldel.stop", "pooldel.delete",
                "pooldel.undefine", "pooldel.wait"}

VolumeSection == {"vol.lookup", "vol.refresh", "vol.prepare", "vol.create", "vol.adopt",
                  "vol.upload", "vol.wait"}

DiskSection == {"disk.refresh", "disk.create", "disk.upload"}

DeleteSection == {"del.refresh", "del.delete", "del.wait"}

\* These, and PoolReads, run under the lock as the tail of a create, and without it in a
\* refresh.
VolumeReads == {"volread.lookup", "volread.active", "volread.start", "volread.pool",
                "volread.info", "volread.desc"}

PoolReads == {"poolread", "poolread.info"}

PoolLabel == PoolSection \union PoolReads
             \union {"idle", "pool.lock", "pooldel.lookup", "pooldel.lock"}

DeleteLabels == DeleteSection \union {"del.lookup", "del.pool", "del.lock"}

VolumeLabel == {"idle", "vol.lock"} \union VolumeSection \union VolumeReads
               \union DeleteLabels

DiskLabel == {"idle", "disk.lookup", "disk.lock", "diskread.lookup", "diskread.pool",
              "diskread.load"} \union DiskSection \union DeleteLabels

LabelOf(r) == IF r \in PoolRes THEN PoolLabel
              ELSE IF r \in VolumeRes THEN VolumeLabel ELSE DiskLabel

\* The ids a resource can have: a pool's is its UUID, any other's its volume key.
IdOf(r) == IF r \in PoolRes THEN Uuid ELSE {KeyOf[r]}

\* Handlers that work on what their id names; they need one.
NeedsId == {"pool.wait", "pooldel.lookup", "pooldel.lock", "pooldel.info",
            "pooldel.stop", "pooldel.delete", "pooldel.undefine", "pooldel.wait",
            "vol.upload", "vol.wait", "diskread.lookup", "diskread.pool", "diskread.load"}
           \union PoolReads \union VolumeReads \union DeleteLabels

\* The type of the state.  An id is always of the resource's own kind (a volume
\* resource never takes a pool's UUID or another volume's key for its id), and
\* no handler gets to a call that needs an id without one.
TypeOK ==
    /\ LibvirtTypeOK
    /\ lock \in [Pool -> Resource \union {None}]
    /\ op \in [Resource -> {"none", "create", "read", "delete"}]
    /\ handle \in [Resource -> Uuid \union {None}]
    /\ pc \in [Resource -> PoolLabel \union VolumeLabel \union DiskLabel]
    /\ d \in [Resource -> Uuid \union Key \union {None}]
    /\ state \in [Resource -> Uuid \union Key \union {None}]
    /\ \A r \in Resource :
         /\ pc[r] \in LabelOf(r)
         /\ d[r] \in IdOf(r) \union {None}
         /\ state[r] \in IdOf(r) \union {None}
         /\ pc[r] \in NeedsId => d[r] # None

-----------------------------------------------------------------------------
(* Safety.                                                                  *)

InSection(label, kind) ==
    \/ label \in PoolSection \union VolumeSection \union DiskSection \union DeleteSection
    \/ kind = "create" /\ label \in VolumeReads \union PoolReads

\* Client.poolMutexKV: from Lock to the deferred Unlock a handler holds the
\* mutex of its own pool, so two such handlers of a pool exclude each other; a
\* handler holds no other mutex, and no return path of any handler leaves one
\* locked behind.
SectionsExclude == \A p \in Pool, r \in Resource :
    lock[p] = r <=> InSection(pc[r], op[r]) /\ PoolOf(r) = p

\* While volumeDelete polls for its key to disappear (volumeWaitDeleted), no
\* other handler brings the key back, although every create of that name gives
\* the same key: the poll cannot mistake a new volume for the deleted one.
NoResurrection == \A r \in VolLike : pc[r] = "del.wait" => vols[d[r]] = None

\* Cloud-init and ignition data is only written into the volume that this very
\* handler created, never into a volume of somebody else with the same name.
DiskUploadsOwn == \A r \in DiskRes :
    pc[r] = "disk.upload" /\ KeyOf[r] \notin ByHand => vols[KeyOf[r]] = r /\ data[KeyOf[r]] = None

\* The volume create works on the pool that has the name now: its handle cannot
\* go stale, for it is looked up under the lock that a pool's delete takes too.
FreshPoolHandle == \A r \in VolumeRes :
    pc[r] \in VolumeSection \ {"vol.lookup"} => IsPool(PoolOf(r), handle[r])

PastUpload == {"vol.wait"} \union VolumeReads

\* A volume that libvirt_volume's create has made (or adopted), and filled if it has a
\* source, does not drop out of Terraform's sight again before the create returns: in
\* the wait and in the read at its end, whatever fails, the id is saved.  A crash loses
\* it, and a volume that somebody deletes by hand meanwhile is rightly dropped.
CreateKeepsTrack ==
    [][\A r \in VolumeRes :
         /\ op[r] = "create"
         /\ pc[r] \in PastUpload
         /\ op'[r] = "none"
         /\ KeyOf[r] \notin ByHand
         => state'[r] = KeyOf[r] \/ Crash]_vars

\* "storage pool '%s' already exists": two libvirt_pool resources of one name
\* never come to own one pool, in whatever order their creates run.
PoolsAreNotShared == \A r, q \in PoolRes : d[r] # None /\ d[r] = d[q] => r = q

\* What Terraform's state names is there: when no handler of the resource runs,
\* its id is a pool that is defined or a volume that exists, unless the volume is one
\* that somebody deletes by hand.
StateIsBacked == \A r \in Resource :
    /\ op[r] = "none"
    /\ state[r] # None
    => IF r \in PoolRes THEN IsPool(PoolOf(r), state[r])
       ELSE vols[state[r]] # None \/ state[r] \in ByHand

\* "If the resource is already destroyed, this should not return an error": the
\* destroy of a volume, a cloud-init disk or an ignition file succeeds when the
\* volume has been deleted by hand, before it or at any moment of it (as long as
\* the pool itself is up and has not been defined anew meanwhile).
DestroyToleratesDeleted ==
    [][\A r \in VolLike :
         /\ op[r] = "delete"
         /\ pc'[r] = "idle"
         /\ vols[state[r]] = None
         /\ \/ pc[r] = "del.lookup"
            \/ Usable(PoolOf(r), IF handle[r] = None THEN puid[PoolOf(r)] ELSE handle[r])
         => state'[r] = None \/ Crash]_vars

Guard == INSTANCE PoolGuard WITH owner <- lock

\* The volumes of a pool change only by the handler that owns the pool's mutex.
GuardsVolumes == Guard!Spec

-----------------------------------------------------------------------------
(* Liveness.                                                                *)

\* Every operation that Terraform begins ends: no handler waits for ever for a
\* mutex, a stale handle or a state that never comes.
EveryOperationEnds == \A r \in Resource : (op[r] # "none") ~> (op[r] = "none")

-----------------------------------------------------------------------------
(* What comments and tests say, and the code does not keep.                 *)

\* "don't save volume ID in case of error [...]  If we don't throw away the id, we will
\* keep instead a broken volume.": a create whose upload fails ends without an id, and
\* the next run makes the volume anew.
FailedUploadDropsId ==
    [][\A r \in VolumeRes :
         /\ op[r] = "create"
         /\ pc[r] = "vol.upload"
         /\ op'[r] = "none"
         => state'[r] = None]_vars

\* "volume '%s' may have been deleted outside terraform": a refresh drops a
\* volume from the state only if the volume is gone.
RefreshDropsOnlyDeleted ==
    [][\A r \in VolumeRes :
         /\ op[r] = "read"
         /\ state[r] # None
         /\ state'[r] = None
         => vols[state[r]] = None]_vars

\* "Volume already deleted.": when volumeDelete succeeds the volume is gone.
DeletedIsGone ==
    [][\A r \in VolLike :
         /\ op[r] = "delete"
         /\ state[r] # None
         /\ state'[r] = None
         => vols'[state[r]] = None]_vars
=============================================================================
