--------------------------- MODULE StorageProofs ---------------------------
(***************************************************************************)
(* For any set of resources, pools and volumes: the handlers' sections of a *)
(* pool exclude each other, the volumes of a pool change only in them, and  *)
(* what a handler knows of its volume and its pool stays true in them.  Two *)
(* pool resources never own one pool; a create keeps track of what it made, *)
(* the state names what is there, and a destroy of what is gone succeeds.   *)
(*                                                                         *)
(* The invariant IInv adds to the properties what a label tells of the     *)
(* operation, the id and the handle.  The steps of the handlers have all    *)
(* one shape: what a step does to libvirt (Touches), and where the handler  *)
(* goes, seen from the mutex of its pool (Stays, Enters, Leaves, Returns);  *)
(* HandlerShape proves that, one case per libvirt call.  What other handlers *)
(* do follows from the shape alone, and the handler's own calls are looked  *)
(* at for HandleStaysFresh, KeepsTrack, StateBacked, DestroyTolerates, and  *)
(* at the end, where every call is shown to leave fewer to make.            *)
(***************************************************************************)
EXTENDS Storage, Naturals, TLAPS

\* Labels of a create, up to the read at its end.
Creating == {"pool.lock", "pool.lookup", "pool.define", "pool.build", "pool.start",
             "pool.refresh", "pool.wait", "vol.lock"} \union VolumeSection

\* A pool has been defined, and only the handle knows it yet.
NewPool == {"pool.build", "pool.start", "pool.refresh"}

\* A handler runs exactly while its resource has an operation; otherwise the
\* ResourceData has the id of the state.
IdleInv == \A r \in Resource :
    /\ op[r] = "none" <=> pc[r] = "idle"
    /\ op[r] = "none" => d[r] = state[r]

\* What runs in a create's section belongs to a create, so the read at its end is
\* known to run under the mutex.
OpInv == \A r \in Resource : pc[r] \in Creating => op[r] = "create"

\* Between its definition and its id, a new pool has a handle.
HandleInv == \A r \in Resource : pc[r] \in NewPool => handle[r] \in Uuid

\* A pool that is defined has a UUID.
NamedInv == \A p \in Pool : Defined(p) => puid[p] \in Uuid

\* The inductive invariant.
IInv == TypeOK /\ IdleInv /\ OpInv /\ HandleInv /\ NamedInv /\ SectionsExclude /\ NoResurrection

LabelsOf == PoolLabel \union VolumeLabel \union DiskLabel

\* What holds when a handler arrives at a label with a claim on the state.
Arrives(r, label) ==
    /\ label \in NeedsId => d'[r] # None
    /\ label \in NewPool => handle'[r] \in Uuid
    /\ label = "del.wait" => vols'[d'[r]] = None
    /\ label = "disk.upload" => vols'[KeyOf[r]] = r /\ data'[KeyOf[r]] = None
    /\ label \in VolumeSection \ {"vol.lookup"} =>
         \/ pc[r] \in VolumeSection \ {"vol.lookup"} /\ handle' = handle
         \/ pst'[PoolOf(r)] # "absent" /\ puid'[PoolOf(r)] = handle'[r]

MayGo(r, label) ==
    /\ pc[r] # "idle"
    /\ label \in LabelOf(r) \ {"idle"}
    /\ label \in Creating => op[r] = "create"

Moves(r, label) ==
    /\ MayGo(r, label)
    /\ Arrives(r, label)
    /\ pc' = [pc EXCEPT ![r] = label]
    /\ UNCHANGED <<op, state>>
    /\ \E u \in Uuid \union {None} : handle' = [handle EXCEPT ![r] = u]
    /\ \E id \in IdOf(r) \union {None} : d' = [d EXCEPT ![r] = id]

\* A handler's step goes to the next call on the same side of the mutex, enters
\* or leaves the section of its pool, or returns.
Stays(r) == \E l \in LabelsOf :
    /\ Moves(r, l)
    /\ lock' = lock
    /\ InSection(l, op[r]) <=> InSection(pc[r], op[r])

Enters(r) == \E l \in LabelsOf :
    /\ Moves(r, l)
    /\ PoolMutex!Acquire(r, PoolOf(r))
    /\ InSection(l, op[r])

Leaves(r) == \E l \in LabelsOf :
    /\ Moves(r, l)
    /\ lock' = Unlocked(r)
    /\ ~InSection(l, op[r])

Returns(r) == \E id \in IdOf(r) \union {None} : Return(r, id)

\* A pool is defined, undefined or stopped.
Redefines(p) == puid'[p] # puid[p] \/ (pst'[p] = "absent" /\ pst[p] # "absent")
Stops(p) == pst[p] = "active" /\ pst'[p] # "active"

\* What a handler's step may do to libvirt: a pool handler (un)defines and stops its
\* own pool, another one works on its own volume, each only in the section.
Touches(r) ==
    /\ LibvirtTypeOK' /\ NamedInv'
    /\ \A p \in Pool :
         Redefines(p) \/ Stops(p) =>
           InSection(pc[r], op[r]) /\ p = PoolOf(r) /\ r \in PoolRes
    /\ \A p \in Pool : Redefines(p) /\ Defined(p) => puid[p] = handle[r]
    /\ \A k \in Key :
         vols'[k] # vols[k] \/ data'[k] # data[k] =>
           /\ InSection(pc[r], op[r])
           /\ r \in VolLike /\ k = KeyOf[r]
           /\ vols'[k] \in {vols[k], r, None}
           /\ data'[k] \in {data[k], r, None}

\* The shape of every step of every handler.
Shape(r) == Touches(r) /\ (Stays(r) \/ Enters(r) \/ Leaves(r) \/ Returns(r))

-----------------------------------------------------------------------------
\* Every handler locks a pool of the instance.
LEMMA PoolOfType == \A r \in Resource : PoolOf(r) \in Pool
  BY ResourceAssumption, KeyPoolAssumption DEF PoolOf, VolLike

\* "idle" is a label of every handler, and claims nothing.
LEMMA Idle ==
  /\ \A r : "idle" \in LabelOf(r)
  /\ "idle" \notin NeedsId
  /\ "idle" \notin Creating
  /\ "idle" \notin NewPool
  /\ \A o : ~InSection("idle", o)
  BY DEF LabelOf, PoolLabel, VolumeLabel, DiskLabel, NeedsId, Creating, NewPool, InSection,
     PoolSection, VolumeSection, DiskSection, DeleteSection, VolumeReads, PoolReads, DeleteLabels

\* The labels of a handler are among the labels of all.
LEMMA SubLabels == \A r : LabelOf(r) \subseteq LabelsOf
  BY DEF LabelOf, LabelsOf

\* libvirt's new UUID is a UUID.
LEMMA NewUuidType == FreshUuids # {} => NewUuid \in Uuid
  <1> SUFFICES ASSUME FreshUuids # {} PROVE NewUuid \in Uuid
    OBVIOUS
  <1>1. PICK u : u \in FreshUuids
    OBVIOUS
  <1>2. NewUuid \in FreshUuids
    BY <1>1 DEF NewUuid
  <1> QED
    BY <1>2 DEF FreshUuids

-----------------------------------------------------------------------------
(* What the calls touch.                                                    *)

\* A step that makes no changing call keeps the discipline.
LEMMA Untouched ==
  ASSUME IInv, NEW r \in Resource, UNCHANGED libvirtVars
  PROVE  Touches(r)
  BY DEF IInv, TypeOK, LibvirtTypeOK, libvirtVars, Touches, NamedInv, Defined, Redefines, Stops

\* A start touches neither definitions nor volumes.
LEMMA PoolCreateCall ==
  ASSUME IInv, NEW r \in Resource, NEW u, StoragePoolCreate(PoolOf(r), u)
  PROVE  Touches(r)
  BY PoolOfType DEF IInv, TypeOK, LibvirtTypeOK, PoolState, Touches, SetPool, StoragePoolCreate,
       NamedInv, Defined, Redefines, Stops, CanStart, IsPool

\* Nor do build, stop and delete, which pool handlers call with the mutex.
LEMMA PoolCalls ==
  ASSUME IInv, NEW r \in PoolRes, NEW u, InSection(pc[r], op[r]),
         \/ StoragePoolBuild(PoolOf(r), u)
         \/ StoragePoolDestroy(PoolOf(r), u)
         \/ StoragePoolDelete(PoolOf(r), u)
  PROVE  Touches(r)
  BY PoolOfType, ResourceAssumption DEF IInv, TypeOK, LibvirtTypeOK, PoolState, Touches, SetPool,
       StoragePoolBuild, StoragePoolDestroy, StoragePoolDelete,
       NamedInv, Defined, Redefines, Stops, CanBuild, Usable, CanDelete, IsPool

\* Only a pool's handler, with the mutex, defines the pool.
LEMMA PoolDefinition ==
  ASSUME IInv, NEW r \in PoolRes, NEW u \in Uuid, InSection(pc[r], op[r]),
         StoragePoolDefineXML(PoolOf(r), u)
  PROVE  Touches(r)
  BY PoolOfType, ResourceAssumption DEF IInv, TypeOK, LibvirtTypeOK, PoolState, Touches, SetPool,
       StoragePoolDefineXML, NamedInv, Defined, Redefines, Stops

\* Only a pool's handler, with the mutex, undefines the pool.
LEMMA PoolUndefinition ==
  ASSUME IInv, NEW r \in PoolRes, InSection(pc[r], op[r]),
         StoragePoolUndefine(PoolOf(r), handle[r])
  PROVE  Touches(r)
  BY PoolOfType, ResourceAssumption DEF IInv, TypeOK, LibvirtTypeOK, PoolState, Touches, SetPool,
       StoragePoolUndefine, NamedInv, Defined, Redefines, Stops, IsPool

\* Calls on the handler's own volume, with the mutex, keep the discipline.
LEMMA VolumeCalls ==
  ASSUME IInv, NEW r \in VolLike, InSection(pc[r], op[r]),
         \/ \E u : StorageVolCreateXML(KeyOf[r], u, r)
         \/ StorageVolUpload(KeyOf[r], r)
         \/ StorageVolDelete(KeyOf[r])
  PROVE  Touches(r)
  BY ResourceAssumption DEF IInv, TypeOK, LibvirtTypeOK, Touches, PoolOf,
     StorageVolCreateXML, StorageVolUpload, StorageVolDelete, NamedInv, Defined, Redefines, Stops

-----------------------------------------------------------------------------
(* Where the handler goes.                                                  *)

\* The next call: the handler stays on its side of the mutex.
LEMMA GotoStays ==
  ASSUME IInv, NEW r \in Resource, NEW l \in LabelsOf, MayGo(r, l), Arrives(r, l),
         Goto(r, l),
         InSection(l, op[r]) <=> InSection(pc[r], op[r])
  PROVE  Stays(r)
  <1>1. /\ handle = [handle EXCEPT ![r] = handle[r]]
        /\ d = [d EXCEPT ![r] = d[r]]
        /\ handle[r] \in Uuid \union {None}
        /\ d[r] \in IdOf(r) \union {None}
    BY DEF IInv, TypeOK
  <1>2. Moves(r, l) /\ lock' = lock
    BY <1>1 DEF Goto, Moves
  <1> QED
    BY <1>2 DEF Stays

\* A pool was looked up or defined: the handler has a new handle.
LEMMA HandleStays ==
  ASSUME IInv, NEW r \in Resource, NEW l \in LabelsOf, MayGo(r, l),
         NEW u \in Uuid \union {None}, GotoWithHandle(r, l, u),
         InSection(l, op[r]) <=> InSection(pc[r], op[r]),
         l \notin {"del.wait", "disk.upload"},
         l \in NeedsId => d[r] # None,
         l \in NewPool => u \in Uuid,
         l \in VolumeSection \ {"vol.lookup"} =>
           pst'[PoolOf(r)] # "absent" /\ puid'[PoolOf(r)] = u
  PROVE  Stays(r)
  <1>1. /\ d = [d EXCEPT ![r] = d[r]]
        /\ d[r] \in IdOf(r) \union {None}
        /\ handle'[r] = u /\ d' = d
    BY DEF IInv, TypeOK, GotoWithHandle
  <1>2. Arrives(r, l)
    BY <1>1 DEF Arrives
  <1>3. Moves(r, l) /\ lock' = lock
    BY <1>1, <1>2 DEF GotoWithHandle, Moves
  <1> QED
    BY <1>3 DEF Stays

\* d.SetId: the handler has an id of its resource's kind.
LEMMA IdStays ==
  ASSUME IInv, NEW r \in Resource, NEW l \in LabelsOf, MayGo(r, l),
         NEW id \in IdOf(r), GotoWithId(r, l, id), None \notin IdOf(r),
         InSection(l, op[r]) <=> InSection(pc[r], op[r]),
         l \notin {"del.wait", "disk.upload"} \union NewPool,
         l \in VolumeSection \ {"vol.lookup"} => pc[r] \in VolumeSection \ {"vol.lookup"}
  PROVE  Stays(r)
  <1>1. /\ handle = [handle EXCEPT ![r] = handle[r]]
        /\ handle[r] \in Uuid \union {None}
        /\ d'[r] = id /\ handle' = handle
    BY DEF IInv, TypeOK, GotoWithId
  <1>2. Arrives(r, l)
    BY <1>1 DEF Arrives
  <1>3. Moves(r, l) /\ lock' = lock
    BY <1>1, <1>2 DEF GotoWithId, Moves
  <1> QED
    BY <1>3 DEF Stays

\* Lock: the handler enters the section of its pool.
LEMMA LockEnters ==
  ASSUME IInv, NEW r \in Resource, NEW here, NEW l \in LabelsOf, MayGo(r, l), Arrives(r, l),
         Lock(r, here, l), InSection(l, op[r])
  PROVE  Enters(r)
  <1>1. /\ handle = [handle EXCEPT ![r] = handle[r]]
        /\ d = [d EXCEPT ![r] = d[r]]
        /\ handle[r] \in Uuid \union {None}
        /\ d[r] \in IdOf(r) \union {None}
    BY DEF IInv, TypeOK
  <1>2. Moves(r, l)
    BY <1>1 DEF Lock, Moves
  <1> QED
    BY <1>2 DEF Enters, Lock

\* A return saves the id the handler has, or none.
LEMMA ReturnReturns ==
  ASSUME IInv, NEW r \in Resource, Return(r, d[r]) \/ Return(r, None)
  PROVE  Returns(r)
  BY DEF IInv, TypeOK, Returns

-----------------------------------------------------------------------------
(* The handlers, call by call.                                              *)

\* Every step of a libvirt_pool handler has the shape.
LEMMA PoolShape ==
  ASSUME IInv, NEW r \in PoolRes, PoolStep(r)
  PROVE  Shape(r)
  <1> USE DEF MayGo, Arrives, LabelOf, LabelsOf, InSection, NeedsId, Creating, NewPool, PoolLabel,
      VolumeLabel, DiskLabel, PoolSection, VolumeSection, DiskSection, DeleteSection,
      DeleteLabels, VolumeReads, PoolReads
  <1>1. /\ r \in Resource /\ r \notin VolumeRes
        /\ puid[PoolOf(r)] \in Uuid \union {None} /\ None \notin Uuid
        /\ d[r] \in IdOf(r) \union {None} /\ IdOf(r) = Uuid
        /\ pc[r] \in NeedsId => d[r] # None
        /\ pc[r] \in Creating => op[r] = "create"
        /\ pc[r] \in NewPool => handle[r] \in Uuid
    BY ResourceAssumption, NoneAssumption, PoolOfType
       DEF IInv, TypeOK, LibvirtTypeOK, IdOf, OpInv, HandleInv, VolLike
  <1>2. CASE PoolLock(r)
    <2>1. pc[r] = "pool.lock" /\ Touches(r)
      BY <1>1, <1>2, Untouched DEF PoolLock, Lock, ReturnError
    <2>2. Lock(r, "pool.lock", "pool.lookup") => Enters(r)
      BY <1>1, <2>1, LockEnters DEF Lock
    <2> QED
      BY <1>1, <1>2, <2>1, <2>2, ReturnReturns DEF PoolLock, Shape, ReturnError
  <1>3. CASE PoolLookup(r)
    <2>1. pc[r] = "pool.lookup" /\ Touches(r)
      BY <1>1, <1>3, Untouched DEF PoolLookup
    <2>2. Goto(r, "pool.define") => Stays(r)
      BY <1>1, <2>1, GotoStays DEF Goto
    <2> QED
      BY <1>1, <1>3, <2>1, <2>2, ReturnReturns DEF PoolLookup, Shape
  <1>4. CASE PoolDefine(r)
    <2>1. pc[r] = "pool.define" /\ Touches(r)
      BY <1>1, <1>4, Untouched, PoolDefinition, NewUuidType DEF PoolDefine, ReturnError
    <2>2. \A u \in Uuid : GotoWithHandle(r, "pool.build", u) => Stays(r)
      BY <1>1, <2>1, HandleStays
    <2> QED
      BY <1>1, <1>4, <2>1, <2>2, ReturnReturns, NewUuidType DEF PoolDefine, Shape, ReturnError
  <1>5. CASE PoolBuild(r)
    <2>1. pc[r] = "pool.build" /\ Touches(r)
      BY <1>1, <1>5, Untouched, PoolCalls DEF PoolBuild, ReturnError
    <2>2. Goto(r, "pool.start") => Stays(r)
      BY <1>1, <2>1, GotoStays DEF Goto
    <2> QED
      BY <1>1, <1>5, <2>1, <2>2, ReturnReturns DEF PoolBuild, Shape, ReturnError
  <1>6. CASE PoolStart(r)
    <2>1. pc[r] = "pool.start" /\ Touches(r)
      BY <1>1, <1>6, Untouched, PoolCreateCall DEF PoolStart, ReturnError
    <2>2. Goto(r, "pool.refresh") => Stays(r)
      BY <1>1, <2>1, GotoStays DEF Goto
    <2> QED
      BY <1>1, <1>6, <2>1, <2>2, ReturnReturns DEF PoolStart, Shape, ReturnError
  <1>7. CASE PoolRefresh(r)
    <2>1. pc[r] = "pool.refresh" /\ Touches(r)
      BY <1>1, <1>7, Untouched DEF PoolRefresh
    <2>2. GotoWithId(r, "pool.wait", handle[r]) => Stays(r)
      BY <1>1, <2>1, IdStays
    <2> QED
      BY <1>1, <1>7, <2>1, <2>2, ReturnReturns DEF PoolRefresh, Shape
  <1>8. CASE PoolWait(r)
    <2>1. pc[r] = "pool.wait" /\ Touches(r)
      BY <1>1, <1>8, Untouched DEF PoolWait
    <2>2. Goto(r, "poolread") => Stays(r)
      BY <1>1, <2>1, GotoStays DEF Goto
    <2> QED
      BY <1>1, <1>8, <2>1, <2>2, ReturnReturns DEF PoolWait, Shape
  <1>9. CASE PoolRead(r)
    <2>1. pc[r] = "poolread" /\ Touches(r)
      BY <1>1, <1>9, Untouched DEF PoolRead
    <2>2. Goto(r, "poolread.info") => Stays(r)
      BY <1>1, <2>1, GotoStays DEF Goto
    <2> QED
      BY <1>1, <1>9, <2>1, <2>2, ReturnReturns DEF PoolRead, Shape
  <1>17. CASE PoolReadInfo(r)
    <2>1. Touches(r)
      BY <1>1, <1>17, Untouched DEF PoolReadInfo
    <2> QED
      BY <1>1, <1>17, <2>1, ReturnReturns DEF PoolReadInfo, Shape
  <1>10. CASE PoolDeleteLookup(r)
    <2>1. pc[r] = "pooldel.lookup" /\ Touches(r)
      BY <1>1, <1>10, Untouched DEF PoolDeleteLookup
    <2>2. GotoWithHandle(r, "pooldel.lock", d[r]) => Stays(r)
      BY <1>1, <2>1, HandleStays
    <2> QED
      BY <1>1, <1>10, <2>1, <2>2, ReturnReturns DEF PoolDeleteLookup, Shape
  <1>11. CASE PoolDeleteLock(r)
    <2>1. pc[r] = "pooldel.lock" /\ Touches(r)
      BY <1>1, <1>11, Untouched DEF PoolDeleteLock, Lock
    <2>2. Enters(r)
      BY <1>1, <1>11, <2>1, LockEnters DEF PoolDeleteLock, Lock
    <2> QED
      BY <1>1, <1>11, <2>1, <2>2, ReturnReturns DEF PoolDeleteLock, Shape
  <1>12. CASE PoolDeleteInfo(r)
    <2>1. pc[r] = "pooldel.info" /\ Touches(r)
      BY <1>1, <1>12, Untouched DEF PoolDeleteInfo
    <2>2. Goto(r, "pooldel.stop") => Stays(r)
      BY <1>1, <2>1, GotoStays DEF Goto
    <2>3. Goto(r, "pooldel.delete") => Stays(r)
      BY <1>1, <2>1, GotoStays DEF Goto
    <2> QED
      BY <1>1, <1>12, <2>1, <2>2, <2>3, ReturnReturns DEF PoolDeleteInfo, Shape
  <1>13. CASE PoolDeleteStop(r)
    <2>1. pc[r] = "pooldel.stop" /\ Touches(r)
      BY <1>1, <1>13, Untouched, PoolCalls DEF PoolDeleteStop, ReturnError
    <2>2. Goto(r, "pooldel.delete") => Stays(r)
      BY <1>1, <2>1, GotoStays DEF Goto
    <2> QED
      BY <1>1, <1>13, <2>1, <2>2, ReturnReturns DEF PoolDeleteStop, Shape, ReturnError
  <1>14. CASE PoolDeleteDelete(r)
    <2>1. pc[r] = "pooldel.delete" /\ Touches(r)
      BY <1>1, <1>14, Untouched, PoolCalls DEF PoolDeleteDelete, ReturnError
    <2>2. Goto(r, "pooldel.undefine") => Stays(r)
      BY <1>1, <2>1, GotoStays DEF Goto
    <2> QED
      BY <1>1, <1>14, <2>1, <2>2, ReturnReturns DEF PoolDeleteDelete, Shape, ReturnError
  <1>15. CASE PoolDeleteUndefine(r)
    <2>1. pc[r] = "pooldel.undefine" /\ Touches(r)
      BY <1>1, <1>15, Untouched, PoolUndefinition DEF PoolDeleteUndefine, ReturnError
    <2>2. Goto(r, "pooldel.wait") => Stays(r)
      BY <1>1, <2>1, GotoStays DEF Goto
    <2> QED
      BY <1>1, <1>15, <2>1, <2>2, ReturnReturns DEF PoolDeleteUndefine, Shape, ReturnError
  <1>16. CASE PoolDeleteWait(r)
    <2>1. pc[r] = "pooldel.wait" /\ Touches(r)
      BY <1>1, <1>16, Untouched DEF PoolDeleteWait
    <2> QED
      BY <1>1, <1>16, <2>1, ReturnReturns DEF PoolDeleteWait, Shape
  <1> QED
    BY <1>2, <1>3, <1>4, <1>5, <1>6, <1>7, <1>8, <1>9, <1>10, <1>11, <1>12, <1>13, <1>14, <1>15, <1>16,
       <1>17 DEF PoolStep

\* Every step of a libvirt_volume create or read has the shape.
LEMMA VolumeShape ==
  ASSUME IInv, NEW r \in VolumeRes, VolumeStep(r)
  PROVE  Shape(r)
  <1> USE DEF MayGo, Arrives, LabelOf, LabelsOf, InSection, NeedsId, Creating, NewPool, PoolLabel,
      VolumeLabel, DiskLabel, PoolSection, VolumeSection, DiskSection, DeleteSection,
      DeleteLabels, VolumeReads, PoolReads
  <1>1. /\ r \in Resource /\ r \in VolLike /\ r \notin PoolRes /\ r \in VolumeRes
        /\ PoolOf(r) \in Pool /\ puid[PoolOf(r)] \in Uuid \union {None}
        /\ IdOf(r) = {KeyOf[r]} /\ KeyOf[r] \in Key /\ KeyOf[r] # None
        /\ d[r] \in {KeyOf[r], None}
        /\ pc[r] \in NeedsId => d[r] = KeyOf[r]
        /\ pc[r] \in Creating => op[r] = "create"
    BY ResourceAssumption, NoneAssumption, PoolOfType
       DEF IInv, TypeOK, LibvirtTypeOK, IdOf, OpInv, VolLike, DiskRes
  <1>2. CASE VolumeLock(r)
    <2>1. pc[r] = "vol.lock" /\ Touches(r)
      BY <1>1, <1>2, Untouched DEF VolumeLock, Lock
    <2>2. Enters(r)
      BY <1>1, <1>2, <2>1, LockEnters DEF VolumeLock, Lock
    <2> QED
      BY <1>1, <1>2, <2>1, <2>2, ReturnReturns DEF VolumeLock, Shape
  <1>3. CASE VolumeLookup(r)
    <2>1. pc[r] = "vol.lookup" /\ Touches(r)
      BY <1>1, <1>3, Untouched DEF VolumeLookup
    <2>2. UNCHANGED libvirtVars /\ Defined(PoolOf(r)) /\
          GotoWithHandle(r, "vol.refresh", puid[PoolOf(r)]) => Stays(r)
      BY <1>1, <2>1, HandleStays DEF Defined, libvirtVars
    <2> QED
      BY <1>1, <1>3, <2>1, <2>2, ReturnReturns DEF VolumeLookup, Shape
  <1>4. CASE VolumeRefresh(r)
    <2>1. pc[r] = "vol.refresh" /\ Touches(r)
      BY <1>1, <1>4, Untouched DEF VolumeRefresh
    <2>2. Goto(r, "vol.prepare") => Stays(r)
      BY <1>1, <2>1, GotoStays DEF Goto
    <2> QED
      BY <1>1, <1>4, <2>1, <2>2, ReturnReturns DEF VolumeRefresh, Shape
  <1>5. CASE VolumePrepare(r)
    <2>1. pc[r] = "vol.prepare" /\ Touches(r)
      BY <1>1, <1>5, Untouched DEF VolumePrepare
    <2>2. Goto(r, "vol.create") => Stays(r)
      BY <1>1, <2>1, GotoStays DEF Goto
    <2> QED
      BY <1>1, <1>5, <2>1, <2>2, ReturnReturns DEF VolumePrepare, Shape
  <1>6. CASE VolumeCreate(r)
    <2>1. pc[r] = "vol.create" /\ Touches(r)
      BY <1>1, <1>6, Untouched, VolumeCalls DEF VolumeCreate, ReturnError
    <2>2. Goto(r, "vol.adopt") => Stays(r)
      BY <1>1, <2>1, GotoStays DEF Goto
    <2>3. GotoWithId(r, "vol.upload", KeyOf[r]) => Stays(r)
      BY <1>1, <2>1, IdStays
    <2>4. GotoWithId(r, "vol.wait", KeyOf[r]) => Stays(r)
      BY <1>1, <2>1, IdStays
    <2> QED
      BY <1>1, <1>6, <2>1, <2>2, <2>3, <2>4, ReturnReturns DEF VolumeCreate, Shape, ReturnError, AfterCreate
  <1>7. CASE VolumeAdopt(r)
    <2>1. pc[r] = "vol.adopt" /\ Touches(r)
      BY <1>1, <1>7, Untouched DEF VolumeAdopt
    <2>2. GotoWithId(r, "vol.upload", KeyOf[r]) => Stays(r)
      BY <1>1, <2>1, IdStays
    <2>3. GotoWithId(r, "vol.wait", KeyOf[r]) => Stays(r)
      BY <1>1, <2>1, IdStays
    <2> QED
      BY <1>1, <1>7, <2>1, <2>2, <2>3, ReturnReturns DEF VolumeAdopt, Shape, AfterCreate
  <1>8. CASE VolumeUpload(r)
    <2>1. pc[r] = "vol.upload" /\ Touches(r)
      BY <1>1, <1>8, Untouched, VolumeCalls DEF VolumeUpload, ReturnError
    <2>2. Goto(r, "vol.wait") => Stays(r)
      BY <1>1, <2>1, GotoStays DEF Goto
    <2> QED
      BY <1>1, <1>8, <2>1, <2>2, ReturnReturns DEF VolumeUpload, Shape, ReturnError
  <1>9. CASE VolumeWait(r)
    <2>1. pc[r] = "vol.wait" /\ Touches(r)
      BY <1>1, <1>9, Untouched DEF VolumeWait
    <2>2. Goto(r, "volread.lookup") => Stays(r)
      BY <1>1, <2>1, GotoStays DEF Goto
    <2> QED
      BY <1>1, <1>9, <2>1, <2>2, ReturnReturns DEF VolumeWait, Shape
  <1>10. CASE VolumeReadLookup(r)
    <2>1. pc[r] = "volread.lookup" /\ Touches(r)
      BY <1>1, <1>10, Untouched DEF VolumeReadLookup
    <2>2. Goto(r, "volread.pool") => Stays(r)
      BY <1>1, <2>1, GotoStays DEF Goto
    <2>3. Goto(r, "volread.active") => Stays(r)
      BY <1>1, <2>1, GotoStays DEF Goto
    <2> QED
      BY <1>1, <1>10, <2>1, <2>2, <2>3, ReturnReturns DEF VolumeReadLookup, Shape
  <1>11. CASE VolumeReadActive(r)
    <2>1. pc[r] = "volread.active" /\ Touches(r)
      BY <1>1, <1>11, Untouched DEF VolumeReadActive
    <2>2. GotoWithHandle(r, "volread.start", puid[PoolOf(r)]) => Stays(r)
      BY <1>1, <2>1, HandleStays
    <2> QED
      BY <1>1, <1>11, <2>1, <2>2, ReturnReturns DEF VolumeReadActive, Shape
  <1>12. CASE VolumeReadStart(r)
    <2>1. pc[r] = "volread.start" /\ Touches(r)
      BY <1>1, <1>12, Untouched, PoolCreateCall DEF VolumeReadStart, ReturnError
    <2>2. Goto(r, "volread.lookup") => Stays(r)
      BY <1>1, <2>1, GotoStays DEF Goto
    <2> QED
      BY <1>1, <1>12, <2>1, <2>2, ReturnReturns DEF VolumeReadStart, Shape, ReturnError
  <1>13. CASE VolumeReadPool(r)
    <2>1. pc[r] = "volread.pool" /\ Touches(r)
      BY <1>1, <1>13, Untouched DEF VolumeReadPool
    <2>2. Goto(r, "volread.info") => Stays(r)
      BY <1>1, <2>1, GotoStays DEF Goto
    <2> QED
      BY <1>1, <1>13, <2>1, <2>2, ReturnReturns DEF VolumeReadPool, Shape
  <1>14. CASE VolumeReadInfo(r)
    <2>1. pc[r] = "volread.info" /\ Touches(r)
      BY <1>1, <1>14, Untouched DEF VolumeReadInfo
    <2>2. Goto(r, "volread.desc") => Stays(r)
      BY <1>1, <2>1, GotoStays DEF Goto
    <2> QED
      BY <1>1, <1>14, <2>1, <2>2, ReturnReturns DEF VolumeReadInfo, Shape
  <1>15. CASE VolumeReadDesc(r)
    <2>1. Touches(r)
      BY <1>1, <1>15, Untouched DEF VolumeReadDesc
    <2> QED
      BY <1>1, <1>15, <2>1, ReturnReturns DEF VolumeReadDesc, Shape
  <1> QED
    BY <1>2, <1>3, <1>4, <1>5, <1>6, <1>7, <1>8, <1>9, <1>10, <1>11, <1>12, <1>13, <1>14, <1>15
       DEF VolumeStep

\* Every step of volumeDelete has the shape.
LEMMA DeleteShape ==
  ASSUME IInv, NEW r \in VolLike, DeleteStep(r)
  PROVE  Shape(r)
  <1> USE DEF MayGo, Arrives, LabelOf, LabelsOf, InSection, NeedsId, Creating, NewPool, PoolLabel,
      VolumeLabel, DiskLabel, PoolSection, VolumeSection, DiskSection, DeleteSection,
      DeleteLabels, VolumeReads, PoolReads
  <1>1. /\ r \in Resource /\ r \in VolLike /\ r \notin PoolRes
        /\ PoolOf(r) \in Pool /\ puid[PoolOf(r)] \in Uuid \union {None}
        /\ IdOf(r) = {KeyOf[r]} /\ KeyOf[r] \in Key /\ KeyOf[r] # None
        /\ d[r] \in {KeyOf[r], None}
        /\ pc[r] \in NeedsId => d[r] = KeyOf[r]
        /\ pc[r] \in Creating => op[r] = "create"
    BY ResourceAssumption, NoneAssumption, PoolOfType
       DEF IInv, TypeOK, LibvirtTypeOK, IdOf, OpInv, VolLike
  <1>2. CASE DeleteLookup(r)
    <2>1. pc[r] = "del.lookup" /\ Touches(r)
      BY <1>1, <1>2, Untouched DEF DeleteLookup
    <2>2. Goto(r, "del.pool") => Stays(r)
      BY <1>1, <2>1, GotoStays DEF Goto
    <2> QED
      BY <1>1, <1>2, <2>1, <2>2, ReturnReturns DEF DeleteLookup, Shape
  <1>3. CASE DeletePool(r)
    <2>1. pc[r] = "del.pool" /\ Touches(r)
      BY <1>1, <1>3, Untouched DEF DeletePool
    <2>2. GotoWithHandle(r, "del.lock", puid[PoolOf(r)]) => Stays(r)
      BY <1>1, <2>1, HandleStays
    <2> QED
      BY <1>1, <1>3, <2>1, <2>2, ReturnReturns DEF DeletePool, Shape
  <1>4. CASE DeleteLock(r)
    <2>1. pc[r] = "del.lock" /\ Touches(r)
      BY <1>1, <1>4, Untouched DEF DeleteLock, Lock
    <2>2. Enters(r)
      BY <1>1, <1>4, <2>1, LockEnters DEF DeleteLock, Lock
    <2> QED
      BY <1>1, <1>4, <2>1, <2>2, ReturnReturns DEF DeleteLock, Shape
  <1>5. CASE DeleteRefresh(r)
    <2>1. pc[r] = "del.refresh" /\ Touches(r)
      BY <1>1, <1>5, Untouched DEF DeleteRefresh
    <2>2. Goto(r, "del.delete") => Stays(r)
      BY <1>1, <2>1, GotoStays DEF Goto
    <2> QED
      BY <1>1, <1>5, <2>1, <2>2, ReturnReturns DEF DeleteRefresh, Shape
  <1>6. CASE DeleteVolume(r)
    <2>1. pc[r] = "del.delete" /\ Touches(r)
      BY <1>1, <1>6, Untouched, VolumeCalls DEF DeleteVolume, ReturnError
    <2>2. StorageVolDelete(d[r]) => vols'[d[r]] = None
      BY <1>1, <2>1 DEF StorageVolDelete, IInv, TypeOK, LibvirtTypeOK
    <2>3. Goto(r, "del.wait") /\ StorageVolDelete(d[r]) => Stays(r)
      BY <1>1, <2>1, <2>2, GotoStays DEF Goto
    <2> QED
      BY <1>1, <1>6, <2>1, <2>2, <2>3, ReturnReturns DEF DeleteVolume, Shape, ReturnError
  <1>7. CASE DeleteWait(r)
    <2>1. pc[r] = "del.wait" /\ Touches(r)
      BY <1>1, <1>7, Untouched DEF DeleteWait
    <2> QED
      BY <1>1, <1>7, <2>1, ReturnReturns DEF DeleteWait, Shape
  <1> QED
    BY <1>2, <1>3, <1>4, <1>5, <1>6, <1>7 DEF DeleteStep

\* Every step of a cloud-init or ignition create or read has the shape.
LEMMA DiskShape ==
  ASSUME IInv, NEW r \in DiskRes, DiskStep(r)
  PROVE  Shape(r)
  <1> USE DEF MayGo, Arrives, LabelOf, LabelsOf, InSection, NeedsId, Creating, NewPool, PoolLabel,
      VolumeLabel, DiskLabel, PoolSection, VolumeSection, DiskSection, DeleteSection,
      DeleteLabels, VolumeReads, PoolReads
  <1>1. /\ r \in Resource /\ r \in VolLike /\ r \notin PoolRes /\ r \notin VolumeRes
        /\ PoolOf(r) \in Pool /\ puid[PoolOf(r)] \in Uuid \union {None}
        /\ IdOf(r) = {KeyOf[r]} /\ KeyOf[r] \in Key /\ KeyOf[r] # None
        /\ d[r] \in {KeyOf[r], None}
        /\ pc[r] \in NeedsId => d[r] = KeyOf[r]
        /\ pc[r] \in Creating => op[r] = "create"
    BY ResourceAssumption, NoneAssumption, PoolOfType
       DEF IInv, TypeOK, LibvirtTypeOK, IdOf, OpInv, VolLike, DiskRes
  <1>2. CASE DiskLookup(r)
    <2>1. pc[r] = "disk.lookup" /\ Touches(r)
      BY <1>1, <1>2, Untouched DEF DiskLookup
    <2>2. GotoWithHandle(r, "disk.lock", puid[PoolOf(r)]) => Stays(r)
      BY <1>1, <2>1, HandleStays
    <2> QED
      BY <1>1, <1>2, <2>1, <2>2, ReturnReturns DEF DiskLookup, Shape
  <1>3. CASE DiskLock(r)
    <2>1. pc[r] = "disk.lock" /\ Touches(r)
      BY <1>1, <1>3, Untouched DEF DiskLock, Lock
    <2>2. Enters(r)
      BY <1>1, <1>3, <2>1, LockEnters DEF DiskLock, Lock
    <2> QED
      BY <1>1, <1>3, <2>1, <2>2, ReturnReturns DEF DiskLock, Shape
  <1>4. CASE DiskRefresh(r)
    <2>1. pc[r] = "disk.refresh" /\ Touches(r)
      BY <1>1, <1>4, Untouched DEF DiskRefresh
    <2>2. Goto(r, "disk.create") => Stays(r)
      BY <1>1, <2>1, GotoStays DEF Goto
    <2> QED
      BY <1>1, <1>4, <2>1, <2>2, ReturnReturns DEF DiskRefresh, Shape
  <1>5. CASE DiskCreate(r)
    <2>1. pc[r] = "disk.create" /\ Touches(r)
      BY <1>1, <1>5, Untouched, VolumeCalls DEF DiskCreate, ReturnError
    <2>2. Goto(r, "disk.upload") /\ StorageVolCreateXML(KeyOf[r], handle[r], r) => Stays(r)
      <3>1. StorageVolCreateXML(KeyOf[r], handle[r], r) => vols'[KeyOf[r]] = r /\ data'[KeyOf[r]] = None
        BY <1>1 DEF StorageVolCreateXML, IInv, TypeOK, LibvirtTypeOK
      <3> QED
        BY <1>1, <2>1, <3>1, GotoStays DEF Goto
    <2> QED
      BY <1>1, <1>5, <2>1, <2>2, ReturnReturns DEF DiskCreate, Shape, ReturnError
  <1>6. CASE DiskReadLookup(r)
    <2>1. pc[r] = "diskread.lookup" /\ Touches(r)
      BY <1>1, <1>6, Untouched DEF DiskReadLookup
    <2>2. Goto(r, "diskread.pool") => Stays(r)
      BY <1>1, <2>1, GotoStays DEF Goto
    <2> QED
      BY <1>1, <1>6, <2>1, <2>2, ReturnReturns DEF DiskReadLookup, Shape
  <1>7. CASE DiskReadPool(r)
    <2>1. pc[r] = "diskread.pool" /\ Touches(r)
      BY <1>1, <1>7, Untouched DEF DiskReadPool
    <2>2. Goto(r, "diskread.load") => Stays(r)
      BY <1>1, <2>1, GotoStays DEF Goto
    <2> QED
      BY <1>1, <1>7, <2>1, <2>2, ReturnReturns DEF DiskReadPool, Shape
  <1>8. CASE DiskReadLoad(r)
    <2>1. pc[r] = "diskread.load" /\ Touches(r)
      BY <1>1, <1>8, Untouched DEF DiskReadLoad
    <2> QED
      BY <1>1, <1>8, <2>1, ReturnReturns DEF DiskReadLoad, Shape
  <1>9. CASE DiskUpload(r)
    <2>1. pc[r] = "disk.upload" /\ Touches(r)
      BY <1>1, <1>9, Untouched, VolumeCalls DEF DiskUpload, ReturnError
    <2>2. ASSUME lock' = Unlocked(r), pc' = [pc EXCEPT ![r] = "diskread.lookup"],
                 d' = [d EXCEPT ![r] = KeyOf[r]], UNCHANGED <<op, handle, state>>
          PROVE  Leaves(r)
      <3>1. d'[r] = KeyOf[r] /\ handle = [handle EXCEPT ![r] = handle[r]]
            /\ handle[r] \in Uuid \union {None}
        BY <1>1, <2>2 DEF IInv, TypeOK
      <3>2. Moves(r, "diskread.lookup") /\ ~InSection("diskread.lookup", op[r])
        BY <1>1, <2>1, <2>2, <3>1 DEF Moves
      <3> QED
        BY <2>2, <3>2 DEF Leaves
    <2> QED
      BY <1>1, <1>9, <2>1, <2>2, ReturnReturns DEF DiskUpload, ReturnError, Shape
  <1> QED
    BY <1>2, <1>3, <1>4, <1>5, <1>6, <1>7, <1>8, <1>9 DEF DiskStep

\* Every step of every handler has the shape.
LEMMA HandlerShape ==
  ASSUME IInv, NEW r \in Resource, HandlerStep(r)
  PROVE  Shape(r)
  BY PoolShape, VolumeShape, DiskShape, DeleteShape DEF HandlerStep

-----------------------------------------------------------------------------
(* The properties, from the shape of the steps.                             *)

\* The invariant holds initially.
LEMMA InitInv == Init => IInv
  <1> SUFFICES ASSUME Init PROVE IInv
    OBVIOUS
  <1> USE ResourceAssumption, KeyPoolAssumption, NoneAssumption, PoolOfType, Idle, SubLabels
  <1>1. TypeOK
    BY DEF Init, LibvirtInit, HandlersInit, PoolMutex!Init, TypeOK, LibvirtTypeOK, PoolState, LabelsOf
  <1>2. IdleInv /\ OpInv /\ HandleInv
    BY DEF Init, HandlersInit, IdleInv, OpInv, HandleInv
  <1>3. SectionsExclude /\ NoResurrection
    BY DEF Init, HandlersInit, PoolMutex!Init, SectionsExclude, InSection, NoResurrection, VolLike
  <1>4. NamedInv
    BY DEF Init, LibvirtInit, NamedInv, Defined
  <1> QED
    BY <1>1, <1>2, <1>3, <1>4 DEF IInv

\* Going to a label for which its claims hold keeps the handlers' invariants.
LEMMA MovesInv ==
  ASSUME IInv, NEW r \in Resource, NEW l \in LabelsOf, Moves(r, l), LibvirtTypeOK',
         lock' \in [Pool -> Resource \union {None}]
  PROVE  (TypeOK /\ IdleInv /\ OpInv /\ HandleInv)'
  <1> USE DEF IInv
  <1>1. TypeOK'
    BY SubLabels, ResourceAssumption DEF TypeOK, Moves, MayGo, Arrives, IdOf, LabelsOf, VolLike
  <1>2. IdleInv'
    BY Idle DEF IdleInv, Moves, MayGo, TypeOK
  <1>3. OpInv' /\ HandleInv'
    BY DEF OpInv, HandleInv, Moves, MayGo, Arrives, TypeOK
  <1> QED
    BY <1>1, <1>2, <1>3

\* A move changes one label.
LEMMA MovesSection ==
  ASSUME IInv, NEW r \in Resource, NEW l \in LabelsOf, Moves(r, l)
  PROVE  /\ pc'[r] = l /\ op' = op
         /\ \A q \in Resource \ {r} : pc'[q] = pc[q]
  BY DEF Moves, IInv, TypeOK

\* Neither side of the mutex is left.
LEMMA StaysInv ==
  ASSUME IInv, NEW r \in Resource, Stays(r), Touches(r)
  PROVE  (TypeOK /\ IdleInv /\ OpInv /\ HandleInv)' /\ SectionsExclude'
  <1>1. PICK l \in LabelsOf :
             /\ Moves(r, l)
             /\ lock' = lock
             /\ InSection(l, op[r]) <=> InSection(pc[r], op[r])
    BY DEF Stays
  <1>2. LibvirtTypeOK' /\ lock' \in [Pool -> Resource \union {None}]
    BY <1>1 DEF IInv, Touches, TypeOK
  <1>3. (TypeOK /\ IdleInv /\ OpInv /\ HandleInv)'
    BY <1>1, <1>2, MovesInv
  <1>4. \A q \in Resource : InSection(pc'[q], op'[q]) <=> InSection(pc[q], op[q])
    BY <1>1, MovesSection
  <1>5. SectionsExclude'
    BY <1>1, <1>4 DEF SectionsExclude, IInv, PoolOf
  <1> QED
    BY <1>3, <1>5

\* The mutex was free, so nobody was in the section.
LEMMA EntersInv ==
  ASSUME IInv, NEW r \in Resource, Enters(r), Touches(r)
  PROVE  (TypeOK /\ IdleInv /\ OpInv /\ HandleInv)' /\ SectionsExclude'
  <1>1. PICK l \in LabelsOf :
             /\ Moves(r, l)
             /\ PoolMutex!Acquire(r, PoolOf(r))
             /\ InSection(l, op[r])
    BY DEF Enters
  <1>2. LibvirtTypeOK' /\ lock' \in [Pool -> Resource \union {None}]
    BY <1>1 DEF IInv, Touches, TypeOK, PoolMutex!Acquire
  <1>3. (TypeOK /\ IdleInv /\ OpInv /\ HandleInv)'
    BY <1>1, <1>2, MovesInv
  <1>4. SectionsExclude'
    <2>1. /\ lock[PoolOf(r)] = None
          /\ lock'[PoolOf(r)] = r
          /\ \A p \in Pool \ {PoolOf(r)} : lock'[p] = lock[p]
      BY <1>1, PoolOfType DEF PoolMutex!Acquire, IInv, TypeOK
    <2>2. /\ InSection(pc'[r], op'[r])
          /\ \A q \in Resource \ {r} : InSection(pc'[q], op'[q]) <=> InSection(pc[q], op[q])
      BY <1>1, MovesSection
    <2>3. ASSUME NEW p \in Pool, NEW q \in Resource
          PROVE  lock'[p] = q <=> InSection(pc'[q], op'[q]) /\ PoolOf(q) = p
      BY <2>1, <2>2, PoolOfType, NoneAssumption DEF SectionsExclude, IInv
    <2> QED
      BY <2>3 DEF SectionsExclude, PoolOf
  <1> QED
    BY <1>3, <1>4

\* The deferred Unlock releases the mutex of the handler's pool, if it has it.
LEMMA UnlockedLock ==
  ASSUME IInv, NEW r \in Resource
  PROVE  /\ Unlocked(r) \in [Pool -> Resource \union {None}]
         /\ InSection(pc[r], op[r]) => Unlocked(r) = [lock EXCEPT ![PoolOf(r)] = None]
         /\ ~InSection(pc[r], op[r]) => Unlocked(r) = lock
  <1>1. lock = [p \in Pool |-> lock[p]]
    BY DEF IInv, TypeOK
  <1> QED
    BY <1>1, PoolOfType, NoneAssumption DEF Unlocked, SectionsExclude, IInv, TypeOK

\* Outside the section without the mutex: sections still exclude.
LEMMA UnlockedSections ==
  ASSUME IInv, NEW r \in Resource, lock' = Unlocked(r), ~InSection(pc'[r], op'[r]),
         \A q \in Resource \ {r} : InSection(pc'[q], op'[q]) <=> InSection(pc[q], op[q])
  PROVE  SectionsExclude'
  <1>1. ASSUME NEW p \in Pool, NEW q \in Resource
        PROVE  lock'[p] = q <=> InSection(pc'[q], op'[q]) /\ PoolOf(q) = p
    BY NoneAssumption DEF SectionsExclude, IInv, Unlocked
  <1> QED
    BY <1>1 DEF SectionsExclude, PoolOf

\* UploadIso returns its lock, and the create goes on to read.
LEMMA LeavesInv ==
  ASSUME IInv, NEW r \in Resource, Leaves(r), Touches(r)
  PROVE  (TypeOK /\ IdleInv /\ OpInv /\ HandleInv)' /\ SectionsExclude'
  <1>1. PICK l \in LabelsOf :
             /\ Moves(r, l)
             /\ lock' = Unlocked(r)
             /\ ~InSection(l, op[r])
    BY DEF Leaves
  <1>2. LibvirtTypeOK' /\ lock' \in [Pool -> Resource \union {None}]
    BY <1>1, UnlockedLock DEF Touches
  <1>3. (TypeOK /\ IdleInv /\ OpInv /\ HandleInv)'
    BY <1>1, <1>2, MovesInv
  <1>4. SectionsExclude'
    BY <1>1, MovesSection, UnlockedSections
  <1> QED
    BY <1>3, <1>4

\* A handler returns.
LEMMA ReturnsInv ==
  ASSUME IInv, NEW r \in Resource, Returns(r), Touches(r)
  PROVE  (TypeOK /\ IdleInv /\ OpInv /\ HandleInv)' /\ SectionsExclude'
  <1>1. PICK id \in IdOf(r) \union {None} : Return(r, id)
    BY DEF Returns
  <1>2. lock' \in [Pool -> Resource \union {None}]
    BY <1>1, UnlockedLock DEF Return
  <1>3. TypeOK'
    BY <1>1, <1>2, Idle, SubLabels, ResourceAssumption
       DEF IInv, TypeOK, Return, Touches, IdOf, LabelsOf, VolLike
  <1>4. IdleInv' /\ OpInv' /\ HandleInv'
    BY <1>1, Idle DEF IdleInv, OpInv, HandleInv, Return, IInv, TypeOK
  <1>5. /\ pc'[r] = "idle"
        /\ \A q \in Resource \ {r} : pc'[q] = pc[q] /\ op'[q] = op[q]
    BY <1>1 DEF Return, IInv, TypeOK
  <1>6. SectionsExclude'
    BY <1>1, <1>5, Idle, UnlockedSections DEF Return
  <1> QED
    BY <1>3, <1>4, <1>6

-----------------------------------------------------------------------------
(* A handler's step.                                                        *)

\* While a handler is in its section, no other handler changes its volume, or stops or
\* undefines its pool.
LEMMA Protected ==
  ASSUME IInv, NEW r \in Resource, Shape(r), NEW q \in Resource \ {r},
         InSection(pc[q], op[q])
  PROVE  /\ puid'[PoolOf(q)] = puid[PoolOf(q)]
         /\ pst[PoolOf(q)] # "absent" => pst'[PoolOf(q)] # "absent"
         /\ pst[PoolOf(q)] = "active" => pst'[PoolOf(q)] = "active"
         /\ q \in VolLike => vols'[KeyOf[q]] = vols[KeyOf[q]] /\ data'[KeyOf[q]] = data[KeyOf[q]]
  <1>1. ~(InSection(pc[r], op[r]) /\ PoolOf(r) = PoolOf(q))
    BY PoolOfType DEF IInv, SectionsExclude
  <1>2. q \in VolLike => KeyOf[q] \in Key /\ KeyPool[KeyOf[q]] = PoolOf(q)
    BY ResourceAssumption DEF PoolOf
  <1> QED
    BY <1>1, <1>2, PoolOfType, ResourceAssumption DEF Shape, Touches, Redefines, Stops, PoolOf, VolLike

\* A step of one handler leaves the others where they are.
LEMMA Others ==
  ASSUME IInv, NEW r \in Resource, Shape(r), NEW q \in Resource \ {r}
  PROVE  /\ pc'[q] = pc[q] /\ op'[q] = op[q] /\ d'[q] = d[q]
         /\ handle'[q] = handle[q] /\ state'[q] = state[q]
  BY DEF Shape, Stays, Enters, Leaves, Returns, Return, Moves, IInv, TypeOK

\* After a handler's step the claims of its label hold.
LEMMA Arrival ==
  ASSUME IInv, NEW r \in Resource, Shape(r), pc'[r] # "idle"
  PROVE  Arrives(r, pc'[r])
  BY DEF Shape, Stays, Enters, Leaves, Returns, Return, Moves, IInv, TypeOK

\* The id of a volume resource is the key of its volume.
LEMMA OwnId ==
  ASSUME IInv, NEW q \in VolLike, pc[q] \in NeedsId
  PROVE  d[q] = KeyOf[q]
  BY ResourceAssumption DEF IInv, TypeOK, IdOf

\* A step of that shape keeps the invariant.
LEMMA ShapeInv ==
  ASSUME IInv, NEW r \in Resource, Shape(r)
  PROVE  IInv'
  <1>1. (TypeOK /\ IdleInv /\ OpInv /\ HandleInv)' /\ SectionsExclude'
    BY StaysInv, EntersInv, LeavesInv, ReturnsInv DEF Shape
  <1>2. NoResurrection'
    <2>1. SUFFICES ASSUME NEW q \in VolLike, pc'[q] = "del.wait"
                   PROVE  vols'[d'[q]] = None
      BY DEF NoResurrection
    <2>2. q \in Resource
      BY ResourceAssumption
    <2>3. CASE q = r
      BY <2>1, <2>3, Arrival DEF Arrives
    <2>4. CASE q # r
      <3>1. pc[q] = "del.wait" /\ d'[q] = d[q]
        BY <2>1, <2>2, <2>4, Others
      <3>2. d[q] = KeyOf[q] /\ InSection(pc[q], op[q])
        BY <3>1, OwnId DEF NeedsId, DeleteLabels, DeleteSection, InSection
      <3> QED
        BY <2>2, <2>4, <3>1, <3>2, Protected DEF IInv, NoResurrection
    <2> QED
      BY <2>3, <2>4
  <1>3. NamedInv'
    BY DEF Shape, Touches
  <1> QED
    BY <1>1, <1>2, <1>3 DEF IInv

-----------------------------------------------------------------------------
(* The other steps.                                                         *)

\* Terraform begins an operation: at a label outside the section.
LEMMA BeginInv ==
  ASSUME IInv, NEW r \in Resource, NEW kind \in {"create", "read", "delete"},
         NEW l \in LabelOf(r) \ {"idle"}, Begin(r, kind, l),
         ~InSection(l, kind), l \notin NewPool \union {"del.wait"},
         l \in Creating => kind = "create", l \in NeedsId => d[r] # None
  PROVE  IInv'
  <1>1. /\ op[r] = "none" /\ pc[r] = "idle"
        /\ op' = [op EXCEPT ![r] = kind] /\ pc' = [pc EXCEPT ![r] = l]
        /\ UNCHANGED <<pst, puid, vols, data, lock, handle, d, state>>
    BY DEF Begin, libvirtVars, IInv, IdleInv
  <1>2. TypeOK'
    BY <1>1, SubLabels DEF IInv, TypeOK, LibvirtTypeOK, LabelsOf, IdOf
  <1>3. IdleInv' /\ OpInv' /\ HandleInv'
    BY <1>1 DEF IInv, IdleInv, OpInv, HandleInv, TypeOK
  <1>4. SectionsExclude'
    <2>1. \A q \in Resource : InSection(pc'[q], op'[q]) <=> InSection(pc[q], op[q])
      BY <1>1, Idle DEF IInv, TypeOK
    <2> QED
      BY <1>1, <2>1 DEF IInv, SectionsExclude, PoolOf
  <1>5. NoResurrection' /\ NamedInv'
    BY <1>1 DEF IInv, NoResurrection, TypeOK, NamedInv, Defined
  <1> QED
    BY <1>2, <1>3, <1>4, <1>5 DEF IInv

\* The three operations begin like that.
LEMMA TerraformInv ==
  ASSUME IInv, NEW r \in Resource, BeginCreate(r) \/ BeginRead(r) \/ BeginDelete(r)
  PROVE  IInv'
  <1> USE ResourceAssumption
      DEF LabelOf, PoolLabel, VolumeLabel, DiskLabel, NeedsId, Creating, NewPool, InSection,
          PoolSection, VolumeSection, DiskSection, DeleteSection, VolumeReads, PoolReads, DeleteLabels
  <1>1. op[r] = "none" => d[r] = state[r]
    BY DEF IInv, IdleInv
  <1>2. CASE BeginCreate(r)
    BY <1>2, BeginInv DEF BeginCreate, CreateLabel
  <1>3. CASE BeginRead(r)
    <2>1. op[r] = "none" /\ state[r] # None
      BY <1>3 DEF BeginRead, Begin
    <2> QED
      BY <1>1, <1>3, <2>1, BeginInv DEF BeginRead, ReadLabel
  <1>4. CASE BeginDelete(r)
    <2>1. op[r] = "none" /\ state[r] # None
      BY <1>4 DEF BeginDelete, Begin
    <2> QED
      BY <1>1, <1>4, <2>1, BeginInv, ResourceAssumption DEF BeginDelete, DeleteLabel, VolLike, DiskRes
  <1> QED
    BY <1>2, <1>3, <1>4

\* What happens behind Terraform's back keeps the invariant: a crash loses locks and
\* handlers together, and a volume that is deleted by hand is gone for volumeDelete too.
LEMMA OutsideInv ==
  ASSUME IInv, OutsideStep
  PROVE  IInv'
  <1>1. CASE Crash
    <2>1. /\ lock' = [p \in Pool |-> None]
          /\ pc' = [r \in Resource |-> "idle"]
          /\ op' = [r \in Resource |-> "none"]
          /\ handle' = [r \in Resource |-> None]
          /\ d' = state
          /\ UNCHANGED <<pst, puid, vols, data, state>>
      BY <1>1 DEF Crash, libvirtVars
    <2>2. TypeOK'
      BY <2>1, Idle, SubLabels DEF IInv, TypeOK, LibvirtTypeOK, LabelsOf, IdOf
    <2>3. IdleInv' /\ OpInv' /\ HandleInv' /\ NoResurrection' /\ NamedInv'
      BY <2>1, Idle, ResourceAssumption DEF IdleInv, OpInv, HandleInv, NoResurrection, IInv,
         NamedInv, Defined
    <2>4. SectionsExclude'
      BY <2>1, Idle, NoneAssumption DEF SectionsExclude
    <2> QED
      BY <2>2, <2>3, <2>4 DEF IInv
  <1>2. CASE ~Crash
    <2>1. UNCHANGED <<lock, pc, op, handle, d, state>>
      BY <1>2 DEF OutsideStep, OutsideStop, OutsideDelete, OutsideUndefine, handlerVars
    <2>2. LibvirtTypeOK' /\ \A k \in Key : vols'[k] \in {vols[k], None}
      BY <1>2 DEF OutsideStep, OutsideStop, OutsideDelete, OutsideUndefine, StoragePoolDestroy,
         StorageVolDelete, StoragePoolUndefine, SetPool, IInv, TypeOK, LibvirtTypeOK, PoolState
    <2>3. TypeOK'
      BY <2>1, <2>2 DEF IInv, TypeOK, IdOf, LabelOf
    <2>4. IdleInv' /\ OpInv' /\ HandleInv' /\ SectionsExclude'
      BY <2>1 DEF IInv, IdleInv, OpInv, HandleInv, SectionsExclude, PoolOf
    <2>5. NoResurrection'
      <3>1. \A r \in VolLike : pc[r] = "del.wait" => d[r] \in Key
        BY OwnId, ResourceAssumption DEF NeedsId, DeleteLabels, DeleteSection
      <3> QED
        BY <2>1, <2>2, <3>1 DEF IInv, NoResurrection
    <2>6. NamedInv'
      BY <1>2 DEF OutsideStep, OutsideStop, OutsideDelete, OutsideUndefine, StoragePoolDestroy,
         StorageVolDelete, StoragePoolUndefine, SetPool, IInv, TypeOK, LibvirtTypeOK, NamedInv,
         Defined, Usable, IsPool
    <2> QED
      BY <2>3, <2>4, <2>5, <2>6 DEF IInv
  <1> QED
    BY <1>1, <1>2

\* Every step keeps the invariant.
LEMMA StepInv == IInv /\ [Next]_vars => IInv'
  <1> SUFFICES ASSUME IInv, [Next]_vars PROVE IInv'
    OBVIOUS
  <1>1. ASSUME NEW r \in Resource, HandlerStep(r) PROVE IInv'
    BY <1>1, HandlerShape, ShapeInv
  <1>2. CASE UNCHANGED vars
    <2>1. UNCHANGED <<pst, puid, vols, data, lock, pc, op, handle, d, state>>
      BY <1>2 DEF vars, libvirtVars, handlerVars
    <2> QED
      BY <2>1 DEF IInv, TypeOK, LibvirtTypeOK, IdleInv, OpInv, HandleInv, SectionsExclude,
         NoResurrection, NamedInv, Defined, IdOf, LabelOf, PoolOf
  <1> QED
    BY <1>1, <1>2, TerraformInv, OutsideInv DEF Next

\* The invariant holds throughout.
LEMMA Invariance == Spec => []IInv
  BY InitInv, StepInv, PTL DEF Spec

-----------------------------------------------------------------------------
\* The state is well typed for any set of resources, pools and volumes, with and
\* without faults and interference: ids stay of their own kind, and no handler
\* reaches a call that needs an id without one.
THEOREM TypeCorrect == Spec => []TypeOK
  <1>1. IInv => TypeOK
    BY DEF IInv
  <1> QED
    BY Invariance, <1>1, PTL

\* From Lock to the deferred Unlock every handler holds exactly its pool's mutex,
\* and every return path gives it back: any number of resources share the pools.
THEOREM Sections == Spec => []SectionsExclude
  <1>1. IInv => SectionsExclude
    BY DEF IInv
  <1> QED
    BY Invariance, <1>1, PTL

\* While volumeDelete waits for its key to vanish the volume does not come back.
THEOREM DeletedStays == Spec => []NoResurrection
  <1>1. IInv => NoResurrection
    BY DEF IInv
  <1> QED
    BY Invariance, <1>1, PTL

-----------------------------------------------------------------------------
(* The refinement of PoolGuard.                                             *)

\* A handler's step is a step of PoolGuard: it takes the mutex, or works with it, or
\* does not touch the volumes.
LEMMA ShapeGuard ==
  ASSUME IInv, NEW r \in Resource, Shape(r)
  PROVE  [Guard!Next]_(Guard!guardVars)
  <1>1. PoolOf(r) \in Pool /\ (InSection(pc[r], op[r]) => lock[PoolOf(r)] = r)
    BY PoolOfType DEF IInv, SectionsExclude
  <1>2. vols' \in [Key -> Resource \union {Foreign, None}] /\ data' \in [Key -> Resource \union {None}]
        /\ vols \in [Key -> Resource \union {Foreign, None}] /\ data \in [Key -> Resource \union {None}]
    BY DEF Shape, Touches, LibvirtTypeOK, IInv, TypeOK
  <1>3. ~InSection(pc[r], op[r]) => UNCHANGED <<vols, data>>
    BY <1>2 DEF Shape, Touches
  <1>4. r \in VolLike => KeyPool[KeyOf[r]] = PoolOf(r)
    BY ResourceAssumption DEF PoolOf
  <1>5. CASE Enters(r)
    <2>1. PoolMutex!Acquire(r, PoolOf(r))
      BY <1>5 DEF Enters
    <2>2. ~InSection(pc[r], op[r])
      BY <1>1, <2>1, NoneAssumption DEF PoolMutex!Acquire
    <2>3. Guard!Acquire(r, PoolOf(r))
      BY <1>3, <2>1, <2>2 DEF PoolMutex!Acquire, Guard!Acquire
    <2> QED
      BY <1>1, <2>3 DEF Guard!Next
  <1>6. CASE ~Enters(r)
    <2>1. lock' = lock \/ lock' = Unlocked(r)
      BY <1>6 DEF Shape, Stays, Leaves, Returns, Return
    <2>2. CASE InSection(pc[r], op[r])
      <3>1. lock' \in {lock, [lock EXCEPT ![PoolOf(r)] = None]}
        BY <2>1, <2>2, UnlockedLock
      <3>2. Guard!Work(r, PoolOf(r))
        BY <1>1, <1>2, <1>4, <2>2, <3>1 DEF Shape, Touches, Guard!Work
      <3> QED
        BY <1>1, <3>2 DEF Guard!Next
    <2>3. CASE ~InSection(pc[r], op[r])
      BY <1>3, <2>1, <2>3, UnlockedLock DEF Guard!guardVars
    <2> QED
      BY <2>2, <2>3
  <1> QED
    BY <1>5, <1>6

\* Every step is a step of PoolGuard or changes nothing of it.
LEMMA StepGuard == IInv /\ [Next]_vars => [Guard!Next]_(Guard!guardVars)
  <1> SUFFICES ASSUME IInv, [Next]_vars PROVE [Guard!Next]_(Guard!guardVars)
    OBVIOUS
  <1>1. ASSUME NEW r \in Resource, HandlerStep(r) PROVE [Guard!Next]_(Guard!guardVars)
    BY <1>1, HandlerShape, ShapeGuard
  <1>2. ASSUME NEW r \in Resource, BeginCreate(r) \/ BeginRead(r) \/ BeginDelete(r)
        PROVE  UNCHANGED Guard!guardVars
    BY <1>2 DEF BeginCreate, BeginRead, BeginDelete, Begin, libvirtVars, Guard!guardVars
  <1>3. ASSUME NEW p \in Pool, OutsideStop(p) \/ OutsideUndefine(p)
        PROVE  UNCHANGED Guard!guardVars
    BY <1>3 DEF OutsideStop, OutsideUndefine, StoragePoolDestroy, StoragePoolUndefine, handlerVars,
       Guard!guardVars
  <1>4. ASSUME NEW k \in Key, OutsideDelete(k) PROVE Guard!Next
    <2>1. Guard!Vanish(k)
      BY <1>4 DEF OutsideDelete, StorageVolDelete, handlerVars, Guard!Vanish
    <2> QED
      BY <2>1 DEF Guard!Next
  <1>5. CASE Crash
    <2>1. Guard!Reset
      BY <1>5 DEF Crash, libvirtVars, Guard!Reset
    <2> QED
      BY <2>1 DEF Guard!Next
  <1>6. CASE UNCHANGED vars
    BY <1>6 DEF vars, libvirtVars, handlerVars, Guard!guardVars
  <1> QED
    BY <1>1, <1>2, <1>3, <1>4, <1>5, <1>6 DEF Next, OutsideStep

\* The initial states are PoolGuard's.
LEMMA InitGuard == Init => Guard!Init
  BY DEF Init, LibvirtInit, HandlersInit, PoolMutex!Init, Guard!Init

\* The volumes of a pool are changed only by the handler that owns the pool's mutex,
\* in its own name: Storage implements PoolGuard.
THEOREM Guarding == Spec => GuardsVolumes
  BY InitGuard, StepGuard, Invariance, PTL DEF Spec, GuardsVolumes, Guard!Spec

-----------------------------------------------------------------------------
(* What the mutex protects.                                                 *)

\* Between its create and its upload a disk's volume is protected by the mutex.
LEMMA DiskStepInv ==
  IInv /\ DiskUploadsOwn /\ [Next]_vars => DiskUploadsOwn'
  <1> SUFFICES ASSUME IInv, DiskUploadsOwn, [Next]_vars,
                      NEW q \in DiskRes, pc'[q] = "disk.upload", KeyOf[q] \notin ByHand
               PROVE  vols'[KeyOf[q]] = q /\ data'[KeyOf[q]] = None
    BY DEF DiskUploadsOwn
  <1>1. q \in Resource /\ q \in VolLike
    BY ResourceAssumption DEF VolLike
  <1>2. ASSUME NEW r \in Resource, HandlerStep(r)
        PROVE  vols'[KeyOf[q]] = q /\ data'[KeyOf[q]] = None
    <2>1. Shape(r)
      BY <1>2, HandlerShape
    <2>2. CASE r = q
      BY <2>1, <2>2, Arrival DEF Arrives
    <2>3. CASE r # q
      <3>1. pc[q] = "disk.upload"
        BY <1>1, <2>1, <2>3, Others
      <3> QED
        BY <1>1, <2>1, <2>3, <3>1, Protected DEF DiskUploadsOwn, InSection, DiskSection
    <2> QED
      BY <2>2, <2>3
  <1>3. CASE ~\E r \in Resource : HandlerStep(r)
    <2> DEFINE Kept == vols'[KeyOf[q]] = vols[KeyOf[q]] /\ data'[KeyOf[q]] = data[KeyOf[q]]
    <2>1. Kept /\ pc[q] = "disk.upload"
      <3>1. ASSUME NEW r \in Resource, BeginCreate(r) \/ BeginRead(r) \/ BeginDelete(r)
            PROVE  pc[q] = "disk.upload" /\ Kept
        BY <1>1, <3>1 DEF BeginCreate, BeginRead, BeginDelete, Begin, CreateLabel, ReadLabel,
           DeleteLabel, libvirtVars, IInv, TypeOK
      <3>2. ASSUME OutsideStep PROVE pc[q] = "disk.upload" /\ Kept
        <4>1. ASSUME NEW k \in Key, OutsideDelete(k) PROVE pc[q] = "disk.upload" /\ Kept
          BY <4>1 DEF OutsideDelete, StorageVolDelete, handlerVars, IInv, TypeOK, LibvirtTypeOK
        <4> QED
          BY <1>1, <3>2, <4>1 DEF OutsideStep, OutsideStop, OutsideUndefine, Crash,
             StoragePoolDestroy, StoragePoolUndefine, handlerVars, IInv, TypeOK
      <3> QED
        BY <1>3, <3>1, <3>2 DEF Next, vars, libvirtVars, handlerVars
    <2> QED
      BY <2>1 DEF DiskUploadsOwn
  <1> QED
    BY <1>2, <1>3

\* Whatever fails, and whatever happens outside to the pools, the process and other
\* volumes: the cloud-init and ignition uploads write into the volume that the same
\* handler created, still empty.
THEOREM UploadsOwn == Spec => []DiskUploadsOwn
  <1>1. Init => DiskUploadsOwn
    BY ResourceAssumption DEF Init, HandlersInit, DiskUploadsOwn, VolLike
  <1> QED
    BY <1>1, DiskStepInv, Invariance, PTL DEF Spec

\* From the lookup on, the pool is protected by the mutex.
LEMMA PoolHandleStepInv ==
  ASSUME "undefine" \notin Outside
  PROVE  IInv /\ FreshPoolHandle /\ [Next]_vars => FreshPoolHandle'
  <1> SUFFICES ASSUME IInv, FreshPoolHandle, [Next]_vars,
                      NEW q \in VolumeRes, pc'[q] \in VolumeSection \ {"vol.lookup"}
               PROVE  pst'[PoolOf(q)] # "absent" /\ puid'[PoolOf(q)] = handle'[q]
    BY DEF FreshPoolHandle, IsPool, Defined, PoolOf
  <1>1. q \in Resource /\ q \notin PoolRes
    BY ResourceAssumption DEF VolLike
  <1>2. pc[q] \in VolumeSection \ {"vol.lookup"} =>
          pst[PoolOf(q)] # "absent" /\ puid[PoolOf(q)] = handle[q]
    BY DEF FreshPoolHandle, IsPool, Defined
  <1>3. ASSUME NEW r \in Resource, HandlerStep(r)
        PROVE  pst'[PoolOf(q)] # "absent" /\ puid'[PoolOf(q)] = handle'[q]
    <2>1. Shape(r)
      BY <1>3, HandlerShape
    <2>2. CASE r = q
      <3>1. Arrives(q, pc'[q])
        BY <2>1, <2>2, Arrival DEF VolumeSection
      <3>2. UNCHANGED puid /\ (pst[PoolOf(q)] # "absent" => pst'[PoolOf(q)] # "absent")
        BY <1>1, <2>1, <2>2, PoolOfType DEF Shape, Touches, Redefines, LibvirtTypeOK, IInv, TypeOK
      <3> QED
        BY <1>2, <3>1, <3>2 DEF Arrives
    <2>3. CASE r # q
      <3>1. pc[q] = pc'[q] /\ handle'[q] = handle[q]
        BY <1>1, <2>1, <2>3, Others
      <3>2. InSection(pc[q], op[q])
        BY <3>1 DEF InSection
      <3> QED
        BY <1>1, <1>2, <2>1, <2>3, <3>1, <3>2, Protected
    <2> QED
      BY <2>2, <2>3
  <1>4. CASE ~\E r \in Resource : HandlerStep(r)
    <2>1. ASSUME NEW r \in Resource, BeginCreate(r) \/ BeginRead(r) \/ BeginDelete(r)
          PROVE  pc[q] = pc'[q] /\ UNCHANGED <<pst, puid, handle>>
      BY <1>1, <2>1 DEF BeginCreate, BeginRead, BeginDelete, Begin, CreateLabel, ReadLabel,
         DeleteLabel, libvirtVars, IInv, TypeOK, VolumeSection
    <2>2. ASSUME OutsideStep
          PROVE  /\ pc[q] = pc'[q] /\ UNCHANGED <<puid, handle>>
                 /\ pst[PoolOf(q)] # "absent" => pst'[PoolOf(q)] # "absent"
      BY <1>1, <2>2, PoolOfType DEF OutsideStep, OutsideStop, OutsideDelete, OutsideUndefine, Crash,
         StoragePoolDestroy, StorageVolDelete, SetPool, handlerVars, IInv, TypeOK, LibvirtTypeOK,
         VolumeSection
    <2>3. CASE UNCHANGED vars
      BY <1>2, <2>3 DEF vars, libvirtVars, handlerVars
    <2> QED
      BY <1>2, <1>4, <2>1, <2>2, <2>3 DEF Next
  <1> QED
    BY <1>3, <1>4

\* If nobody undefines pools by hand, the volume create's handle is the pool that has
\* the name, from the lookup to the end of the create.
THEOREM HandleStaysFresh ==
  ASSUME "undefine" \notin Outside
  PROVE  Spec => []FreshPoolHandle
  <1>1. Init => FreshPoolHandle
    BY ResourceAssumption DEF Init, HandlersInit, FreshPoolHandle, VolumeSection, VolLike
  <1> QED
    BY <1>1, PoolHandleStepInv, Invariance, PTL DEF Spec

-----------------------------------------------------------------------------
(* Pools and their ids.                                                     *)

\* What a resource's handler may use as the id of a pool.
IdsOf(r) == {d[r], state[r], handle[r]} \ {None}

IdsInv == \A r, q \in PoolRes : r # q => IdsOf(r) \intersect IdsOf(q) = {}

\* libvirt's new UUID is one that nothing refers to.
LEMMA NewUuidFresh == FreshUuids # {} => NewUuid \in FreshUuids
  <1> SUFFICES ASSUME FreshUuids # {} PROVE NewUuid \in FreshUuids
    OBVIOUS
  <1>1. PICK u : u \in FreshUuids
    OBVIOUS
  <1> QED
    BY <1>1 DEF NewUuid

\* A pool handler knows no UUID but those it knew and the one libvirt drew for it.
LEMMA PoolIds ==
  ASSUME IInv, NEW r \in PoolRes, PoolStep(r)
  PROVE  IdsOf(r)' \subseteq IdsOf(r) \union FreshUuids
  <1>1. r \in Resource
    BY ResourceAssumption
  <1>2. ASSUME NEW l, Goto(r, l) PROVE IdsOf(r)' \subseteq IdsOf(r)
    BY <1>2 DEF Goto, IdsOf
  <1>3. ASSUME NEW l, NEW u \in {d[r], handle[r]} \union FreshUuids, GotoWithHandle(r, l, u)
        PROVE  IdsOf(r)' \subseteq IdsOf(r) \union FreshUuids
    BY <1>1, <1>3 DEF GotoWithHandle, IdsOf, IInv, TypeOK
  <1>4. ASSUME NEW l, GotoWithId(r, l, handle[r]) PROVE IdsOf(r)' \subseteq IdsOf(r)
    BY <1>1, <1>4 DEF GotoWithId, IdsOf, IInv, TypeOK
  <1>5. ASSUME Return(r, d[r]) \/ Return(r, None) PROVE IdsOf(r)' \subseteq IdsOf(r)
    BY <1>1, <1>5 DEF Return, IdsOf, IInv, TypeOK
  <1>6. ASSUME NEW here, NEW l, Lock(r, here, l) PROVE IdsOf(r)' \subseteq IdsOf(r)
    BY <1>6 DEF Lock, IdsOf
  <1>7. CASE PoolLock(r) \/ PoolDeleteLock(r)
    BY <1>5, <1>6, <1>7 DEF PoolLock, PoolDeleteLock, ReturnError
  <1>8. CASE PoolLookup(r) \/ PoolBuild(r) \/ PoolStart(r) \/ PoolWait(r) \/ PoolRead(r)
             \/ PoolReadInfo(r)
    BY <1>2, <1>5, <1>8 DEF PoolLookup, PoolBuild, PoolStart, PoolWait, PoolRead, PoolReadInfo,
       ReturnError
  <1>9. CASE PoolDefine(r)
    BY <1>3, <1>5, <1>9, NewUuidFresh DEF PoolDefine, ReturnError
  <1>10. CASE PoolRefresh(r)
    BY <1>4, <1>5, <1>10 DEF PoolRefresh
  <1>11. CASE PoolDeleteLookup(r)
    BY <1>3, <1>5, <1>11 DEF PoolDeleteLookup
  <1>12. CASE PoolDeleteInfo(r) \/ PoolDeleteStop(r) \/ PoolDeleteDelete(r)
              \/ PoolDeleteUndefine(r) \/ PoolDeleteWait(r)
    BY <1>2, <1>5, <1>12 DEF PoolDeleteInfo, PoolDeleteStop, PoolDeleteDelete,
       PoolDeleteUndefine, PoolDeleteWait, ReturnError
  <1> QED
    BY <1>7, <1>8, <1>9, <1>10, <1>11, <1>12 DEF PoolStep

\* Pool resources never know each other's pools.
LEMMA IdsStepInv == IInv /\ IdsInv /\ [Next]_vars => IdsInv'
  <1> SUFFICES ASSUME IInv, IdsInv, [Next]_vars PROVE IdsInv'
    OBVIOUS
  <1>1. \A q \in PoolRes : q \in Resource /\ q \notin VolLike /\ q \notin VolumeRes /\ q \notin DiskRes
    BY ResourceAssumption DEF VolLike
  <1>2. CASE \A q \in PoolRes : IdsOf(q)' \subseteq IdsOf(q)
    BY <1>2 DEF IdsInv
  <1>3. ASSUME NEW r \in Resource, HandlerStep(r)
        PROVE  IdsInv'
    <2>1. Shape(r)
      BY <1>3, HandlerShape
    <2>2. \A q \in PoolRes \ {r} : IdsOf(q)' = IdsOf(q)
      BY <1>1, <2>1, Others DEF IdsOf
    <2>3. CASE r \notin PoolRes
      BY <1>2, <2>2, <2>3
    <2>4. CASE r \in PoolRes
      <3>1. IdsOf(r)' \subseteq IdsOf(r) \union FreshUuids
        BY <1>1, <1>3, <2>4, PoolIds DEF HandlerStep
      <3>2. \A q \in PoolRes \ {r} : IdsOf(q) \intersect FreshUuids = {}
        BY <1>1 DEF FreshUuids, IdsOf
      <3> QED
        BY <2>2, <3>1, <3>2 DEF IdsInv
    <2> QED
      BY <2>3, <2>4
  <1>4. CASE \E r \in Resource : BeginCreate(r) \/ BeginRead(r) \/ BeginDelete(r)
    <2>1. UNCHANGED <<handle, d, state>>
      BY <1>4 DEF BeginCreate, BeginRead, BeginDelete, Begin
    <2> QED
      BY <1>2, <2>1 DEF IdsOf
  <1>5. CASE OutsideStep
    <2>1. UNCHANGED <<handle, d, state>> \/ Crash
      BY <1>5 DEF OutsideStep, OutsideStop, OutsideDelete, OutsideUndefine, handlerVars
    <2> QED
      BY <1>1, <1>2, <2>1 DEF IdsOf, Crash
  <1>6. CASE UNCHANGED vars
    BY <1>2, <1>6 DEF vars, handlerVars, IdsOf
  <1> QED
    BY <1>3, <1>4, <1>5, <1>6 DEF Next

\* Two libvirt_pool resources of one name never own one pool, for any number of them, with
\* faults, interference and crashes: an existing pool is refused, not adopted.
THEOREM OwnPools == Spec => []PoolsAreNotShared
  <1>1. Init => IdsInv
    BY ResourceAssumption DEF Init, HandlersInit, IdsInv, IdsOf
  <1>2. IdsInv => PoolsAreNotShared
    BY DEF IdsInv, IdsOf, PoolsAreNotShared
  <1> QED
    BY <1>1, <1>2, IdsStepInv, Invariance, PTL DEF Spec

-----------------------------------------------------------------------------
(* A create that has an id.                                                 *)

\* The volume of a create that has an id, and of whose upload is next.
PastCreate == PastUpload \union {"vol.upload"}

\* The volume of a create that has an id is there until the create returns, so the
\* read at its end finds it.
TrackGood(r) ==
    op[r] = "create" /\ pc[r] \in PastCreate /\ KeyOf[r] \notin ByHand =>
      /\ pst[PoolOf(r)] = "active"
      /\ vols[KeyOf[r]] # None
      /\ pc[r] \notin {"volread.active", "volread.start"}

TrackInv == \A r \in VolumeRes : TrackGood(r)

\* The create's own steps, from the definition of the volume on.
LEMMA TrackOwn ==
  ASSUME IInv, NEW r \in VolumeRes, TrackGood(r), HandlerStep(r)
  PROVE  TrackGood(r)'
  <1> USE DEF PastCreate, PastUpload, VolumeReads
  <1>1. /\ r \in Resource /\ r \in VolLike /\ r \notin PoolRes /\ r \notin DiskRes
        /\ PoolOf(r) = KeyPool[KeyOf[r]] /\ KeyOf[r] \in Key /\ PoolOf(r) \in Pool
        /\ pc[r] \in NeedsId => d[r] = KeyOf[r]
        /\ PoolOf(r)' = PoolOf(r)
    BY ResourceAssumption, PoolOfType, OwnId DEF PoolOf, VolLike
  <1>2. CASE DeleteStep(r)
    BY <1>1, <1>2 DEF DeleteStep, DeleteLookup, DeletePool, DeleteLock, DeleteRefresh, DeleteVolume,
       DeleteWait, Goto, GotoWithHandle, Lock, Return, ReturnError, TrackGood, IInv, TypeOK
  <1>3. CASE VolumeLock(r) \/ VolumeLookup(r) \/ VolumeRefresh(r) \/ VolumePrepare(r)
    BY <1>1, <1>3 DEF VolumeLock, VolumeLookup, VolumeRefresh, VolumePrepare,
       Goto, GotoWithHandle, Lock, Return, TrackGood, IInv, TypeOK
  <1>4. CASE VolumeCreate(r)
    <2>1. StorageVolCreateXML(KeyOf[r], handle[r], r) => pst'[PoolOf(r)] = "active" /\ vols'[KeyOf[r]] # None
      BY <1>1, NoneAssumption DEF StorageVolCreateXML, Usable, IInv, TypeOK, LibvirtTypeOK
    <2> QED
      BY <1>1, <1>4, <2>1 DEF VolumeCreate, AfterCreate, Goto, GotoWithId, Return, ReturnError,
         TrackGood, IInv, TypeOK
  <1>5. CASE VolumeAdopt(r)
    BY <1>1, <1>5 DEF VolumeAdopt, AfterCreate, Visible, GotoWithId, Return, libvirtVars,
       TrackGood, IInv, TypeOK
  <1>6. CASE VolumeUpload(r)
    BY <1>1, <1>6 DEF VolumeUpload, StorageVolUpload, Visible, Goto, Return, ReturnError,
       TrackGood, IInv, TypeOK
  <1>7. CASE VolumeWait(r)
    BY <1>1, <1>7 DEF VolumeWait, Visible, Goto, Return, libvirtVars, NeedsId,
       TrackGood, IInv, TypeOK
  <1>8. CASE VolumeReadLookup(r)
    BY <1>1, <1>8 DEF VolumeReadLookup, Visible, Goto, Return, libvirtVars, NeedsId,
       TrackGood, IInv, TypeOK
  <1>9. CASE VolumeReadActive(r) \/ VolumeReadStart(r)
    BY <1>1, <1>9 DEF VolumeReadActive, VolumeReadStart, Goto, GotoWithHandle, Return, ReturnError,
       TrackGood, IInv, TypeOK
  <1>10. CASE VolumeReadPool(r) \/ VolumeReadInfo(r) \/ VolumeReadDesc(r)
    BY <1>1, <1>10 DEF VolumeReadPool, VolumeReadInfo, VolumeReadDesc, Goto, Return, libvirtVars,
       TrackGood, IInv, TypeOK
  <1> QED
    BY <1>1, <1>2, <1>3, <1>4, <1>5, <1>6, <1>7, <1>8, <1>9, <1>10 DEF HandlerStep, VolumeStep

\* The mutex keeps the pool running and the volume there, and nobody outside stops the
\* one or deletes the other.  A running pool is not undefined, and a crash ends the create.
LEMMA TrackStepInv ==
  ASSUME "stop" \notin Outside
  PROVE  IInv /\ TrackInv /\ [Next]_vars => TrackInv'
  <1> SUFFICES ASSUME IInv, TrackInv, [Next]_vars, NEW q \in VolumeRes
               PROVE  TrackGood(q)'
    BY DEF TrackInv
  <1>1. q \in Resource /\ q \in VolLike /\ TrackGood(q) /\ PoolOf(q)' = PoolOf(q)
    BY ResourceAssumption DEF VolLike, TrackInv, PoolOf
  <1>2. ASSUME NEW r \in Resource, HandlerStep(r)
        PROVE  TrackGood(q)'
    <2>1. Shape(r)
      BY <1>2, HandlerShape
    <2>2. CASE r = q
      BY <1>1, <1>2, <2>2, TrackOwn
    <2>3. CASE r # q
      <3>1. pc[q] = pc'[q] /\ op'[q] = op[q]
        BY <1>1, <2>1, <2>3, Others
      <3>2. op[q] = "create" /\ pc[q] \in PastCreate => InSection(pc[q], op[q])
        BY DEF InSection, PastCreate, PastUpload, VolumeSection
      <3> QED
        BY <1>1, <2>1, <2>3, <3>1, <3>2, Protected DEF TrackGood
    <2> QED
      BY <2>2, <2>3
  <1>3. ASSUME NEW r \in Resource, BeginCreate(r) \/ BeginRead(r) \/ BeginDelete(r)
        PROVE  TrackGood(q)'
    <2>1. r # q => pc[q] = pc'[q] /\ op'[q] = op[q]
      BY <1>1, <1>3 DEF BeginCreate, BeginRead, BeginDelete, Begin, IInv, TypeOK
    <2>2. r = q => pc'[q] \notin PastCreate \/ op'[q] # "create"
      BY <1>1, <1>3, ResourceAssumption DEF BeginCreate, BeginRead, BeginDelete, Begin, CreateLabel,
         PastCreate, PastUpload, VolumeReads, IInv, TypeOK
    <2>3. UNCHANGED <<pst, vols>>
      BY <1>3 DEF BeginCreate, BeginRead, BeginDelete, Begin, libvirtVars
    <2> QED
      BY <1>1, <2>1, <2>2, <2>3 DEF TrackGood
  <1>4. CASE OutsideStep
    <2>1. ASSUME NEW p \in Pool, OutsideUndefine(p) PROVE TrackGood(q)'
      <3>1. pst[PoolOf(q)] = "active" => pst'[PoolOf(q)] = "active"
        BY <2>1 DEF OutsideUndefine, StoragePoolUndefine, SetPool, IInv, TypeOK, LibvirtTypeOK
      <3>2. UNCHANGED <<vols, pc, op>>
        BY <2>1 DEF OutsideUndefine, StoragePoolUndefine, handlerVars
      <3> QED
        BY <1>1, <3>1, <3>2 DEF TrackGood
    <2>2. ASSUME NEW k \in Key, OutsideDelete(k) PROVE TrackGood(q)'
      <3>1. k \in ByHand /\ UNCHANGED <<pst, pc, op>>
        BY <2>2 DEF OutsideDelete, StorageVolDelete, handlerVars
      <3>2. k # KeyOf[q] => vols'[KeyOf[q]] = vols[KeyOf[q]]
        BY <1>1, <2>2, ResourceAssumption
           DEF OutsideDelete, StorageVolDelete, IInv, TypeOK, LibvirtTypeOK
      <3> QED
        BY <1>1, <3>1, <3>2 DEF TrackGood
    <2>3. CASE Crash
      BY <1>1, <2>3 DEF Crash, TrackGood
    <2> QED
      BY <1>4, <2>1, <2>2, <2>3 DEF OutsideStep, OutsideStop
  <1>5. CASE UNCHANGED vars
    BY <1>1, <1>5 DEF vars, libvirtVars, handlerVars, TrackGood
  <1> QED
    BY <1>2, <1>3, <1>4, <1>5 DEF Next

\* A create's own step returns with the id.
LEMMA TrackReturns ==
  ASSUME IInv, NEW r \in VolumeRes, TrackGood(r), HandlerStep(r), KeyOf[r] \notin ByHand,
         op[r] = "create", pc[r] \in PastUpload, op'[r] = "none"
  PROVE  state'[r] = KeyOf[r]
  <1> USE DEF PastCreate, PastUpload, VolumeReads
  <1>1. /\ r \in Resource /\ r \in VolLike /\ r \notin PoolRes /\ r \notin DiskRes
        /\ PoolOf(r) = KeyPool[KeyOf[r]]
        /\ d[r] = KeyOf[r]
    BY ResourceAssumption, OwnId DEF PoolOf, VolLike, NeedsId
  <1>2. Visible(d[r]) /\ pc[r] \notin {"volread.active", "volread.start"}
    BY <1>1 DEF TrackGood, Visible
  <1>3. ~DeleteStep(r)
    BY DEF DeleteStep, DeleteLookup, DeletePool, DeleteLock, DeleteRefresh, DeleteVolume,
       DeleteWait, Lock
  <1>4. \/ VolumeWait(r) \/ VolumeReadLookup(r) \/ VolumeReadPool(r) \/ VolumeReadInfo(r)
        \/ VolumeReadDesc(r)
    BY <1>1, <1>2, <1>3 DEF HandlerStep, VolumeStep, VolumeLock, VolumeLookup, VolumeRefresh,
       VolumePrepare, VolumeCreate, VolumeAdopt, VolumeUpload, VolumeReadActive,
       VolumeReadStart, Lock
  <1>5. \A l : ~Goto(r, l)
    BY <1>1 DEF Goto, IInv, TypeOK
  <1>6. Return(r, d[r])
    BY <1>2, <1>4, <1>5 DEF VolumeWait, VolumeReadLookup, VolumeReadPool, VolumeReadInfo,
       VolumeReadDesc
  <1> QED
    BY <1>1, <1>6 DEF Return, IInv, TypeOK

\* For any number of volumes and pools and with any call failing, as long as nobody stops
\* pools by hand: a create that has made or adopted a volume, and filled it, ends with its
\* id in the state, for the mutex keeps pool deletes away from the read at its end.
THEOREM KeepsTrack ==
  ASSUME "stop" \notin Outside
  PROVE  Spec => CreateKeepsTrack
  <1> DEFINE Kept == \A r \in VolumeRes :
                       /\ op[r] = "create"
                       /\ pc[r] \in PastUpload
                       /\ op'[r] = "none"
                       /\ KeyOf[r] \notin ByHand
                       => state'[r] = KeyOf[r] \/ Crash
  <1>1. Init => TrackInv
    BY ResourceAssumption DEF Init, HandlersInit, TrackInv, TrackGood, VolLike
  <1>2. IInv /\ TrackInv /\ [Next]_vars => [Kept]_vars
    <2> SUFFICES ASSUME IInv, TrackInv, Next, ~Crash, NEW q \in VolumeRes,
                        op[q] = "create", pc[q] \in PastUpload, op'[q] = "none",
                        KeyOf[q] \notin ByHand
                 PROVE  state'[q] = KeyOf[q]
      OBVIOUS
    <2>1. q \in Resource
      BY ResourceAssumption DEF VolLike
    <2>2. ASSUME NEW r \in Resource, BeginCreate(r) \/ BeginRead(r) \/ BeginDelete(r) PROVE FALSE
      BY <2>1, <2>2 DEF BeginCreate, BeginRead, BeginDelete, Begin, IInv, TypeOK
    <2>3. ~OutsideStep
      BY <2>1 DEF OutsideStep, OutsideStop, OutsideDelete, OutsideUndefine, handlerVars
    <2>4. PICK r \in Resource : HandlerStep(r)
      BY <2>2, <2>3 DEF Next
    <2>5. r = q
      BY <2>1, <2>4, HandlerShape, Others
    <2> QED
      BY <2>4, <2>5, TrackReturns DEF TrackInv
  <1> QED
    BY <1>1, <1>2, TrackStepInv, Invariance, PTL DEF Spec, CreateKeepsTrack

-----------------------------------------------------------------------------
(* What the state names.                                                    *)

\* What an id names is there, unless its delete waits for it to vanish, or somebody
\* deletes it by hand.
BackedGood(r) ==
    d[r] # None =>
      IF r \in PoolRes THEN pc[r] # "pooldel.wait" => IsPool(PoolOf(r), d[r])
      ELSE pc[r] # "del.wait" /\ KeyOf[r] \notin ByHand => vols[KeyOf[r]] # None

BackedInv == \A r \in Resource : BackedGood(r)

\* No two resources of the configuration are one volume.
OwnKeys == \A r, q \in VolLike : KeyOf[r] = KeyOf[q] => r = q

\* A pool handler's own step.
LEMMA PoolBacked ==
  ASSUME IInv, NEW r \in PoolRes, BackedGood(r), PoolStep(r), ~Faults
  PROVE  BackedGood(r)'
  <1> USE DEF MayFail
  <1>1. /\ r \in Resource /\ PoolOf(r) \in Pool /\ PoolOf(r)' = PoolOf(r)
    BY ResourceAssumption, PoolOfType DEF PoolOf
  <1>3. ASSUME UNCHANGED libvirtVars, pc[r] # "pooldel.wait",
               \/ \E l : Goto(r, l) \/ \E u : GotoWithHandle(r, l, u)
               \/ \E here, l : Lock(r, here, l)
               \/ Return(r, d[r])
               \/ Return(r, None)
        PROVE  BackedGood(r)'
    BY <1>1, <1>3 DEF Goto, GotoWithHandle, Lock, Return, BackedGood, IsPool, Defined, libvirtVars,
       IInv, TypeOK
  <1>4. ASSUME UNCHANGED puid, pst'[PoolOf(r)] # "absent", pc[r] # "pooldel.wait",
               \E l : Goto(r, l) \/ Return(r, d[r])
        PROVE  BackedGood(r)'
    BY <1>1, <1>4 DEF Goto, Return, BackedGood, IsPool, Defined, IInv, TypeOK
  <1>5. CASE PoolLock(r) \/ PoolLookup(r) \/ PoolWait(r) \/ PoolRead(r) \/ PoolReadInfo(r)
             \/ PoolDeleteLookup(r) \/ PoolDeleteLock(r) \/ PoolDeleteInfo(r)
    BY <1>3, <1>5 DEF PoolLock, PoolLookup, PoolWait, PoolRead, PoolReadInfo, PoolDeleteLookup,
       PoolDeleteLock, PoolDeleteInfo, Lock
  <1>6. CASE PoolDefine(r)
    <2>1. StoragePoolDefineXML(PoolOf(r), NewUuid) => d[r] = None
      BY <1>1, <1>6 DEF PoolDefine, BackedGood, StoragePoolDefineXML, IsPool
    <2> QED
      BY <1>1, <1>3, <1>6, <2>1 DEF PoolDefine, ReturnError, GotoWithHandle, BackedGood
  <1>7. CASE PoolBuild(r) \/ PoolStart(r) \/ PoolDeleteStop(r) \/ PoolDeleteDelete(r)
    BY <1>1, <1>3, <1>4, <1>7 DEF PoolBuild, PoolStart, PoolDeleteStop, PoolDeleteDelete, ReturnError,
       StoragePoolBuild, StoragePoolCreate, StoragePoolDestroy, StoragePoolDelete, SetPool,
       IInv, TypeOK, LibvirtTypeOK
  <1>8. CASE PoolRefresh(r)
    BY <1>1, <1>3, <1>8 DEF PoolRefresh, GotoWithId, Usable, BackedGood, IsPool, Defined, libvirtVars,
       IInv, TypeOK
  <1>9. CASE PoolDeleteUndefine(r)
    BY <1>1, <1>3, <1>9 DEF PoolDeleteUndefine, ReturnError, Goto, BackedGood, IInv, TypeOK
  <1>10. CASE PoolDeleteWait(r)
    BY <1>1, <1>10 DEF PoolDeleteWait, Return, BackedGood, IsPool, Defined, libvirtVars, IInv, TypeOK
  <1> QED
    BY <1>5, <1>6, <1>7, <1>8, <1>9, <1>10 DEF PoolStep

\* The own step of any other handler.
LEMMA VolumeBacked ==
  ASSUME IInv, NEW r \in VolLike, BackedGood(r), HandlerStep(r), ~Faults
  PROVE  BackedGood(r)'
  <1> USE DEF MayFail
  <1>1. /\ r \in Resource /\ r \notin PoolRes
        /\ KeyOf[r] \in Key /\ KeyOf[r] # None /\ KeyPool[KeyOf[r]] = PoolOf(r)
        /\ pc[r] \in NeedsId => d[r] = KeyOf[r]
    BY ResourceAssumption, NoneAssumption, OwnId DEF PoolOf
  <1>2. ASSUME UNCHANGED libvirtVars, pc[r] # "del.wait",
               \/ \E l : Goto(r, l) \/ \E u : GotoWithHandle(r, l, u)
               \/ \E here, l : Lock(r, here, l)
               \/ Return(r, d[r])
               \/ Return(r, None)
        PROVE  BackedGood(r)'
    BY <1>1, <1>2 DEF Goto, GotoWithHandle, Lock, Return, BackedGood, libvirtVars, IInv, TypeOK
  <1>3. ASSUME vols'[KeyOf[r]] # None PROVE BackedGood(r)'
    BY <1>1, <1>3 DEF BackedGood
  <1>4. CASE VolumeLock(r) \/ VolumeLookup(r) \/ VolumeRefresh(r) \/ VolumePrepare(r)
             \/ VolumeWait(r) \/ VolumeReadLookup(r) \/ VolumeReadActive(r) \/ VolumeReadPool(r)
             \/ VolumeReadInfo(r) \/ VolumeReadDesc(r)
    BY <1>2, <1>4 DEF VolumeLock, VolumeLookup, VolumeRefresh, VolumePrepare, VolumeWait,
       VolumeReadLookup, VolumeReadActive, VolumeReadPool, VolumeReadInfo, VolumeReadDesc, Lock
  <1>5. CASE VolumeCreate(r) \/ DiskCreate(r)
    <2>1. StorageVolCreateXML(KeyOf[r], handle[r], r) => vols'[KeyOf[r]] # None
      BY <1>1, NoneAssumption DEF StorageVolCreateXML, IInv, TypeOK, LibvirtTypeOK
    <2> QED
      BY <1>1, <1>2, <1>3, <1>5, <2>1 DEF VolumeCreate, DiskCreate, ReturnError
  <1>6. CASE VolumeAdopt(r)
    BY <1>1, <1>2, <1>3, <1>6 DEF VolumeAdopt, Visible, libvirtVars
  <1>7. CASE VolumeUpload(r) \/ DiskUpload(r)
    BY <1>1, <1>2, <1>3, <1>7 DEF VolumeUpload, DiskUpload, StorageVolUpload, Visible, ReturnError
  <1>8. CASE VolumeReadStart(r)
    <2>1. StoragePoolCreate(PoolOf(r), handle[r]) => UNCHANGED vols
      BY DEF StoragePoolCreate
    <2> QED
      BY <1>1, <1>2, <1>8, <2>1 DEF VolumeReadStart, ReturnError, Goto, BackedGood, IInv, TypeOK
  <1>9. CASE DiskLookup(r) \/ DiskLock(r) \/ DiskRefresh(r) \/ DiskReadLookup(r)
             \/ DiskReadPool(r) \/ DiskReadLoad(r)
    BY <1>2, <1>9 DEF DiskLookup, DiskLock, DiskRefresh, DiskReadLookup, DiskReadPool,
       DiskReadLoad, Lock
  <1>10. CASE DeleteLookup(r) \/ DeletePool(r) \/ DeleteLock(r) \/ DeleteRefresh(r)
    BY <1>2, <1>10 DEF DeleteLookup, DeletePool, DeleteLock, DeleteRefresh, Lock
  <1>11. CASE DeleteVolume(r)
    BY <1>1, <1>2, <1>11 DEF DeleteVolume, Goto, ReturnError, BackedGood, IInv, TypeOK
  <1>12. CASE DeleteWait(r)
    BY <1>1, <1>3, <1>12 DEF DeleteWait, NeedsId, DeleteLabels, DeleteSection, Visible, Return,
       libvirtVars, BackedGood, IInv, TypeOK
  <1> QED
    BY <1>1, <1>4, <1>5, <1>6, <1>7, <1>8, <1>9, <1>10, <1>11, <1>12
       DEF HandlerStep, VolumeStep, DiskStep, DeleteStep

\* Another handler leaves it: it has neither the volume nor the pool.
LEMMA OtherBacked ==
  ASSUME IInv, IdsInv, NEW r \in Resource, NEW q \in Resource \ {r}, BackedGood(q), Shape(r), OwnKeys
  PROVE  BackedGood(q)'
  <1>1. pc'[q] = pc[q] /\ d'[q] = d[q]
    BY Others
  <1>2. CASE q \in PoolRes
    <2>1. ASSUME d[q] # None, IsPool(PoolOf(q), d[q])
          PROVE  ~Redefines(PoolOf(q))
      <3>1. SUFFICES ASSUME Redefines(PoolOf(q)) PROVE FALSE
        OBVIOUS
      <3>2. r \in PoolRes /\ handle[r] = d[q]
        BY <2>1, <3>1, PoolOfType DEF Shape, Touches, IsPool
      <3> QED
        BY <1>2, <2>1, <3>2 DEF IdsInv, IdsOf
    <2>2. PoolOf(q)' = PoolOf(q)
      BY DEF PoolOf
    <2> QED
      BY <1>1, <1>2, <2>1, <2>2 DEF BackedGood, IsPool, Defined, Redefines
  <1>3. CASE q \notin PoolRes
    <2>1. q \in VolLike /\ KeyOf[q] \in Key
      BY <1>3, ResourceAssumption
    <2>2. vols'[KeyOf[q]] = vols[KeyOf[q]]
      BY <2>1 DEF Shape, Touches, OwnKeys
    <2> QED
      BY <1>1, <1>3, <2>2 DEF BackedGood
  <1> QED
    BY <1>2, <1>3

\* Handlers that do not fail keep it, also while pools are stopped outside.
LEMMA BackedStepInv ==
  ASSUME Outside \subseteq {"stop"}, ~Faults, OwnKeys
  PROVE  IInv /\ IdsInv /\ BackedInv /\ [Next]_vars => BackedInv'
  <1> SUFFICES ASSUME IInv, IdsInv, BackedInv, [Next]_vars, NEW q \in Resource
               PROVE  BackedGood(q)'
    BY DEF BackedInv
  <1>1. ASSUME NEW r \in Resource, HandlerStep(r)
        PROVE  BackedGood(q)'
    <2>1. CASE r # q
      BY <1>1, <2>1, HandlerShape, OtherBacked DEF BackedInv
    <2>2. CASE r = q /\ q \in PoolRes
      BY <1>1, <2>2, PoolBacked, ResourceAssumption DEF BackedInv, HandlerStep, VolLike
    <2>3. CASE r = q /\ q \in VolLike
      BY <1>1, <2>3, VolumeBacked DEF BackedInv
    <2> QED
      BY <2>1, <2>2, <2>3, ResourceAssumption
  <1>2. CASE \E r \in Resource : BeginCreate(r) \/ BeginRead(r) \/ BeginDelete(r)
    <2>1. UNCHANGED <<pst, puid, vols, d>> /\ (pc'[q] = pc[q] \/ pc[q] = "idle")
      BY <1>2 DEF BeginCreate, BeginRead, BeginDelete, Begin, libvirtVars, IInv, TypeOK, IdleInv
    <2> QED
      BY <2>1 DEF BackedInv, BackedGood, IsPool, Defined, PoolOf
  <1>3. CASE OutsideStep
    <2>1. ASSUME NEW p \in Pool, OutsideStop(p) PROVE BackedGood(q)'
      <3>1. \A o : Defined(o) => Defined(o)'
        BY <2>1 DEF OutsideStop, StoragePoolDestroy, SetPool, Defined, IInv, TypeOK, LibvirtTypeOK
      <3>2. UNCHANGED <<puid, vols, pc, d>> /\ PoolOf(q)' = PoolOf(q)
        BY <2>1 DEF OutsideStop, StoragePoolDestroy, handlerVars, PoolOf
      <3> QED
        BY <3>1, <3>2 DEF BackedInv, BackedGood, IsPool
    <2>2. ASSUME NEW k \in Key, OutsideDelete(k) PROVE BackedGood(q)'
      <3>1. k \in ByHand /\ UNCHANGED <<pst, puid, pc, d>> /\ PoolOf(q)' = PoolOf(q)
        BY <2>2 DEF OutsideDelete, StorageVolDelete, handlerVars, PoolOf
      <3>2. \A o \in Key \ {k} : vols'[o] = vols[o]
        BY <2>2 DEF OutsideDelete, StorageVolDelete, IInv, TypeOK, LibvirtTypeOK
      <3> QED
        BY <3>1, <3>2, ResourceAssumption DEF BackedInv, BackedGood, IsPool, Defined
    <2> QED
      BY <1>3, <2>1, <2>2 DEF OutsideStep, OutsideUndefine, Crash
  <1>4. CASE UNCHANGED vars
    BY <1>4 DEF vars, libvirtVars, handlerVars, BackedInv, BackedGood, IsPool, Defined, PoolOf
  <1> QED
    BY <1>1, <1>2, <1>3, <1>4 DEF Next

\* Where no call fails for no reason and no two resources are one volume, the state never
\* names a pool or a volume that is not there (but for a volume that somebody deletes by
\* hand), in whatever order creates, refreshes and deletes of volumes and their pools run,
\* and whenever somebody stops the pools.
THEOREM StateBacked ==
  ASSUME Outside \subseteq {"stop"}, ~Faults, OwnKeys
  PROVE  Spec => []StateIsBacked
  <1>1. Init => IdsInv /\ BackedInv
    BY ResourceAssumption DEF Init, HandlersInit, IdsInv, IdsOf, BackedInv, BackedGood
  <1>2. IInv /\ BackedInv => StateIsBacked
    <2> SUFFICES ASSUME IInv, BackedInv, NEW r \in Resource, op[r] = "none", state[r] # None
                 PROVE  IF r \in PoolRes THEN IsPool(PoolOf(r), state[r]) ELSE vols[state[r]] # None \/ state[r] \in ByHand
      BY DEF StateIsBacked
    <2>1. pc[r] = "idle" /\ d[r] = state[r] /\ d[r] \in IdOf(r)
      BY DEF IInv, IdleInv, TypeOK
    <2> QED
      BY <2>1 DEF BackedInv, BackedGood, IdOf
  <1> QED
    BY <1>1, <1>2, IdsStepInv, BackedStepInv, Invariance, PTL DEF Spec

-----------------------------------------------------------------------------
(* A delete of what somebody has deleted.                                   *)

\* A delete works on the id of the state, under the mutex with a handle.
DeleteGood(r) ==
    op[r] = "delete" =>
      /\ pc[r] \in DeleteLabels
      /\ d[r] = state[r]
      /\ pc[r] \in DeleteSection \union {"del.lock"} => handle[r] # None

DeleteInv == \A r \in VolLike : DeleteGood(r)

\* The delete's own steps; the handlers of creates and reads are at other labels.
LEMMA DeleteOwn ==
  ASSUME IInv, NEW r \in VolLike, DeleteGood(r), HandlerStep(r)
  PROVE  DeleteGood(r)' /\ (op[r] = "delete" => DeleteStep(r))
  <1> USE DEF DeleteLabels, DeleteSection
  <1>1. /\ r \in Resource /\ r \notin PoolRes /\ PoolOf(r) \in Pool
        /\ Defined(PoolOf(r)) => puid[PoolOf(r)] # None
    BY ResourceAssumption, PoolOfType, NoneAssumption DEF IInv, NamedInv
  <1>2. op'[r] \in {op[r], "none"}
    BY <1>1, HandlerShape DEF Shape, Stays, Enters, Leaves, Returns, Moves, Return, IInv, TypeOK
  <1>3. op[r] = "delete" => DeleteStep(r)
    BY <1>1 DEF DeleteGood, HandlerStep, VolumeStep, DiskStep, VolumeLock, VolumeLookup,
       VolumeRefresh, VolumePrepare, VolumeCreate, VolumeAdopt, VolumeUpload, VolumeWait,
       VolumeReadLookup, VolumeReadActive, VolumeReadStart, VolumeReadPool, VolumeReadInfo,
       VolumeReadDesc, DiskLookup, DiskLock, DiskRefresh, DiskCreate, DiskUpload, DiskReadLookup, DiskReadPool,
       DiskReadLoad, Lock
  <1>4. op[r] = "delete" => DeleteGood(r)'
    <2> SUFFICES ASSUME op[r] = "delete" PROVE DeleteGood(r)'
      OBVIOUS
    <2>1. CASE DeletePool(r)
      BY <1>1, <2>1 DEF DeleteGood, DeletePool, GotoWithHandle, Return, IInv, TypeOK
    <2>2. CASE ~DeletePool(r)
      BY <1>1, <1>3, <2>2 DEF DeleteGood, DeleteStep, DeleteLookup, DeleteLock, DeleteRefresh,
         DeleteVolume, DeleteWait, Goto, Lock, Return, ReturnError, IInv, TypeOK
    <2> QED
      BY <2>1, <2>2
  <1> QED
    BY <1>2, <1>3, <1>4 DEF DeleteGood

\* A delete keeps its id and its handle, whatever happens around it.
LEMMA DeleteStepInv == IInv /\ DeleteInv /\ [Next]_vars => DeleteInv'
  <1> SUFFICES ASSUME IInv, DeleteInv, [Next]_vars, NEW q \in VolLike
               PROVE  DeleteGood(q)'
    BY DEF DeleteInv
  <1>1. q \in Resource /\ q \notin PoolRes /\ DeleteGood(q)
    BY ResourceAssumption DEF DeleteInv
  <1>2. ASSUME NEW r \in Resource, HandlerStep(r)
        PROVE  DeleteGood(q)'
    BY <1>1, <1>2, HandlerShape, Others, DeleteOwn DEF DeleteGood
  <1>3. ASSUME NEW r \in Resource, BeginCreate(r) \/ BeginRead(r) \/ BeginDelete(r)
        PROVE  DeleteGood(q)'
    <2>1. CASE r # q
      BY <1>1, <1>3, <2>1 DEF BeginCreate, BeginRead, BeginDelete, Begin, DeleteGood, IInv, TypeOK
    <2>2. CASE r = q
      BY <1>1, <1>3, <2>2 DEF BeginCreate, BeginRead, BeginDelete, Begin, DeleteLabel, DeleteLabels,
         DeleteSection, DeleteGood, IInv, IdleInv, TypeOK
    <2> QED
      BY <2>1, <2>2
  <1>4. CASE OutsideStep
    BY <1>1, <1>4 DEF OutsideStep, OutsideStop, OutsideDelete, OutsideUndefine, Crash, handlerVars,
       DeleteGood
  <1>5. CASE UNCHANGED vars
    BY <1>1, <1>5 DEF vars, handlerVars, DeleteGood
  <1> QED
    BY <1>2, <1>3, <1>4, <1>5 DEF Next

\* No step of volumeDelete returns an error because its volume is not there.
LEMMA DeleteTolerates ==
  ASSUME IInv, NEW r \in VolLike, DeleteGood(r), DeleteStep(r), ~Faults,
         op[r] = "delete", pc'[r] = "idle", vols[state[r]] = None,
         \/ pc[r] = "del.lookup"
         \/ Usable(PoolOf(r), IF handle[r] = None THEN puid[PoolOf(r)] ELSE handle[r])
  PROVE  state'[r] = None
  <1> USE DEF MayFail
  <1>1. /\ r \in Resource /\ d[r] = state[r] /\ d[r] = KeyOf[r] /\ KeyPool[KeyOf[r]] = PoolOf(r)
        /\ ~Visible(d[r])
    BY ResourceAssumption, OwnId DEF DeleteGood, NeedsId, PoolOf, VolLike, Visible
  <1>2. ASSUME NEW l, l # "idle"
        PROVE  ~Goto(r, l) /\ (\A u : ~GotoWithHandle(r, l, u)) /\ (\A here : ~Lock(r, here, l))
    BY <1>1, <1>2 DEF Goto, GotoWithHandle, Lock, IInv, TypeOK
  <1>3. ASSUME pc[r] \in DeleteSection
        PROVE  Usable(PoolOf(r), handle[r]) /\ ~Unavailable(d[r])
    BY <1>1, <1>3 DEF DeleteGood, DeleteSection, Usable, Unavailable
  <1>4. ASSUME pc[r] = "del.pool" PROVE Defined(PoolOf(r))
    BY <1>4 DEF Usable, IsPool
  <1>5. Return(r, None)
    BY <1>1, <1>2, <1>3, <1>4 DEF DeleteStep, DeleteLookup, DeletePool, DeleteLock, DeleteRefresh,
       DeleteVolume, DeleteWait, DeleteSection, StorageVolDelete, ReturnError
  <1> QED
    BY <1>1, <1>5 DEF Return, IInv, TypeOK

\* Whenever a volume is deleted by hand, and whatever else happens outside: a destroy that
\* reaches its pool succeeds.
THEOREM DestroyTolerates ==
  ASSUME ~Faults
  PROVE  Spec => DestroyToleratesDeleted
  <1> DEFINE Tolerated == \A r \in VolLike :
         /\ op[r] = "delete"
         /\ pc'[r] = "idle"
         /\ vols[state[r]] = None
         /\ \/ pc[r] = "del.lookup"
            \/ Usable(PoolOf(r), IF handle[r] = None THEN puid[PoolOf(r)] ELSE handle[r])
         => state'[r] = None \/ Crash
  <1>1. Init => DeleteInv
    BY ResourceAssumption DEF Init, HandlersInit, DeleteInv, DeleteGood
  <1>2. IInv /\ DeleteInv /\ [Next]_vars => [Tolerated]_vars
    <2> SUFFICES ASSUME IInv, DeleteInv, Next, ~Crash, NEW q \in VolLike,
                        op[q] = "delete", pc'[q] = "idle", vols[state[q]] = None,
                        \/ pc[q] = "del.lookup"
                        \/ Usable(PoolOf(q), IF handle[q] = None THEN puid[PoolOf(q)] ELSE handle[q])
                 PROVE  state'[q] = None
      OBVIOUS
    <2>1. q \in Resource /\ pc[q] # "idle" /\ DeleteGood(q)
      BY ResourceAssumption DEF DeleteInv, IInv, IdleInv
    <2>2. ASSUME NEW r \in Resource, BeginCreate(r) \/ BeginRead(r) \/ BeginDelete(r) PROVE FALSE
      BY <2>1, <2>2 DEF BeginCreate, BeginRead, BeginDelete, Begin, IInv, TypeOK
    <2>3. ~OutsideStep
      BY <2>1 DEF OutsideStep, OutsideStop, OutsideDelete, OutsideUndefine, handlerVars
    <2>4. PICK r \in Resource : HandlerStep(r)
      BY <2>2, <2>3 DEF Next
    <2>5. r = q
      BY <2>1, <2>4, HandlerShape, Others
    <2> QED
      BY <2>1, <2>4, <2>5, DeleteOwn, DeleteTolerates
  <1> QED
    BY <1>1, <1>2, DeleteStepInv, Invariance, PTL DEF Spec, DestroyToleratesDeleted

-----------------------------------------------------------------------------
(* Operations end.                                                          *)

LockLabels == {"pool.lock", "vol.lock", "disk.lock", "pooldel.lock", "del.lock"}

\* A handler whose next call is Lock, of a mutex that is taken.
WaitsForPool(r) == pc[r] \in LockLabels /\ lock[PoolOf(r)] # None

\* Whoever waits for a pool's mutex waits for a handler of that pool which is still in
\* its operation and waits for no mutex itself.
NoCircularWait == \A r \in Resource : WaitsForPool(r) =>
    \E q \in Resource \ {r} : PoolOf(q) = PoolOf(r) /\ op[q] # "none" /\ ~WaitsForPool(q)

\* No deadlock over pools: any number of handlers, faults and interference, a crash too.
THEOREM NoDeadlock == Spec => []NoCircularWait
  <1>1. ASSUME IInv, NEW r \in Resource, WaitsForPool(r)
        PROVE  \E q \in Resource \ {r} :
                 PoolOf(q) = PoolOf(r) /\ op[q] # "none" /\ ~WaitsForPool(q)
    <2> DEFINE q == lock[PoolOf(r)]
    <2>1. PoolOf(r) \in Pool /\ q \in Resource
      BY <1>1, PoolOfType DEF WaitsForPool, IInv, TypeOK
    <2>2. InSection(pc[q], op[q]) /\ PoolOf(q) = PoolOf(r)
      BY <1>1, <2>1 DEF IInv, SectionsExclude
    <2>3. \A label \in LockLabels \union {"idle"} : \A kind : ~InSection(label, kind)
      BY DEF LockLabels, InSection, PoolSection, VolumeSection, DiskSection, DeleteSection,
         VolumeReads, PoolReads
    <2>4. q # r /\ pc[q] \notin LockLabels /\ pc[q] # "idle"
      BY <1>1, <2>2, <2>3 DEF WaitsForPool
    <2>5. op[q] # "none"
      BY <1>1, <2>1, <2>4 DEF IInv, IdleInv
    <2> QED
      BY <2>1, <2>2, <2>4, <2>5 DEF WaitsForPool
  <1>2. IInv => NoCircularWait
    BY <1>1 DEF NoCircularWait
  <1> QED
    BY <1>2, Invariance, PTL

\* The number of calls that an operation has left, at most.
CallsFrom(label) ==
    CASE label = "idle" -> 0
      [] label \in {"poolread.info", "pooldel.wait", "volread.desc", "diskread.load",
                    "del.wait"} -> 1
      [] label \in {"poolread", "pooldel.undefine", "volread.info", "diskread.pool",
                    "del.delete"} -> 2
      [] label \in {"pool.wait", "pooldel.delete", "volread.pool", "diskread.lookup",
                    "del.refresh"} -> 3
      [] label \in {"pool.refresh", "pooldel.stop", "disk.upload", "del.lock"} -> 4
      [] label \in {"pool.start", "pooldel.info", "disk.create", "del.pool"} -> 5
      [] label \in {"pool.build", "pooldel.lock", "volread.start", "disk.refresh",
                    "del.lookup"} -> 6
      [] label \in {"pool.define", "pooldel.lookup", "volread.active", "disk.lock"} -> 7
      [] label \in {"pool.lookup", "volread.lookup", "disk.lookup"} -> 8
      [] label \in {"pool.lock", "vol.wait"} -> 9
      [] label = "vol.upload" -> 10
      [] label = "vol.adopt" -> 11
      [] label = "vol.create" -> 12
      [] label = "vol.prepare" -> 13
      [] label = "vol.refresh" -> 14
      [] label = "vol.lookup" -> 15
      [] label = "vol.lock" -> 16

\* A read of a volume that is not there starts its pool and begins again; an active pool
\* saves it these three calls.
CallsLeft(r) == IF /\ pc[r] \in {"volread.lookup", "volread.active"}
                   /\ pst[PoolOf(r)] = "active"
                THEN CallsFrom(pc[r]) - 3
                ELSE CallsFrom(pc[r])

\* Every call of a handler leaves fewer to make, and nobody else makes them more, unless a
\* volume's pool is stopped: then a read may have to start it again.
CallsRunOut == \A r \in Resource :
    /\ op[r] # "none"
    /\ r \in VolumeRes => ~Stops(PoolOf(r))
    => /\ CallsLeft(r)' <= CallsLeft(r)
       /\ HandlerStep(r) => CallsLeft(r)' < CallsLeft(r)

\* The number at each label.
LEMMA CallsFromIs ==
  /\ CallsFrom("idle") = 0
  /\ \A l \in {"poolread.info", "pooldel.wait", "volread.desc", "diskread.load", "del.wait"} :
       CallsFrom(l) = 1
  /\ \A l \in {"poolread", "pooldel.undefine", "volread.info", "diskread.pool", "del.delete"} :
       CallsFrom(l) = 2
  /\ \A l \in {"pool.wait", "pooldel.delete", "volread.pool", "diskread.lookup",
               "del.refresh"} : CallsFrom(l) = 3
  /\ \A l \in {"pool.refresh", "pooldel.stop", "disk.upload", "del.lock"} : CallsFrom(l) = 4
  /\ \A l \in {"pool.start", "pooldel.info", "disk.create", "del.pool"} : CallsFrom(l) = 5
  /\ \A l \in {"pool.build", "pooldel.lock", "volread.start", "disk.refresh", "del.lookup"} :
       CallsFrom(l) = 6
  /\ \A l \in {"pool.define", "pooldel.lookup", "volread.active", "disk.lock"} :
       CallsFrom(l) = 7
  /\ \A l \in {"pool.lookup", "volread.lookup", "disk.lookup"} : CallsFrom(l) = 8
  /\ \A l \in {"pool.lock", "vol.wait"} : CallsFrom(l) = 9
  /\ CallsFrom("vol.upload") = 10
  /\ CallsFrom("vol.adopt") = 11
  /\ CallsFrom("vol.create") = 12
  /\ CallsFrom("vol.prepare") = 13
  /\ CallsFrom("vol.refresh") = 14
  /\ CallsFrom("vol.lookup") = 15
  /\ CallsFrom("vol.lock") = 16
  BY DEF CallsFrom

\* No operation has more than 16 calls left.
LEMMA CallsLeftType == TypeOK => \A r \in Resource : CallsLeft(r) \in 0 .. 16
  <1> SUFFICES ASSUME TypeOK, NEW r \in Resource PROVE CallsLeft(r) \in 0 .. 16
    OBVIOUS
  <1>1. pc[r] \in LabelsOf
    BY SubLabels DEF TypeOK
  <1>2. CallsFrom(pc[r]) \in 0 .. 16
    BY <1>1, CallsFromIs DEF LabelsOf, PoolLabel, VolumeLabel, DiskLabel, PoolSection,
       VolumeSection, DiskSection, DeleteSection, DeleteLabels, VolumeReads, PoolReads
  <1>3. CallsFrom("volread.lookup") = 8 /\ CallsFrom("volread.active") = 7
    BY CallsFromIs
  <1> QED
    BY <1>2, <1>3 DEF CallsLeft

\* A step of the handler from one call to one of some others, or to its return.
Edge(r, from, tos) == pc[r] = from /\ pc'[r] \in tos \union {"idle"}

\* The ways to go on, seen from the labels.
LEMMA GoesTo ==
  ASSUME TypeOK, NEW r \in Resource
  PROVE  /\ \A l : Goto(r, l) => pc'[r] = l
         /\ \A l, u : GotoWithHandle(r, l, u) => pc'[r] = l
         /\ \A l, id : GotoWithId(r, l, id) => pc'[r] = l
         /\ \A here, l : Lock(r, here, l) => pc[r] = here /\ pc'[r] = l
         /\ \A id : Return(r, id) => pc'[r] = "idle"
         /\ ReturnError(r) => pc'[r] = "idle"
  BY DEF TypeOK, Goto, GotoWithHandle, GotoWithId, Lock, Return, ReturnError

\* The calls of a pool's handlers, one after the other.
LEMMA PoolEdges ==
  ASSUME TypeOK, NEW r \in PoolRes, PoolStep(r)
  PROVE  \/ Edge(r, "pool.lock", {"pool.lookup"})
         \/ Edge(r, "pool.lookup", {"pool.define"})
         \/ Edge(r, "pool.define", {"pool.build"})
         \/ Edge(r, "pool.build", {"pool.start"})
         \/ Edge(r, "pool.start", {"pool.refresh"})
         \/ Edge(r, "pool.refresh", {"pool.wait"})
         \/ Edge(r, "pool.wait", {"poolread"})
         \/ Edge(r, "poolread", {"poolread.info"})
         \/ Edge(r, "poolread.info", {})
         \/ Edge(r, "pooldel.lookup", {"pooldel.lock"})
         \/ Edge(r, "pooldel.lock", {"pooldel.info"})
         \/ Edge(r, "pooldel.info", {"pooldel.stop", "pooldel.delete"})
         \/ Edge(r, "pooldel.stop", {"pooldel.delete"})
         \/ Edge(r, "pooldel.delete", {"pooldel.undefine"})
         \/ Edge(r, "pooldel.undefine", {"pooldel.wait"})
         \/ Edge(r, "pooldel.wait", {})
  <1>1. r \in Resource
    BY ResourceAssumption
  <1> USE <1>1, GoesTo DEF Edge
  <1>2. PoolLock(r) => Edge(r, "pool.lock", {"pool.lookup"})
    BY DEF PoolLock
  <1>3. PoolLookup(r) => Edge(r, "pool.lookup", {"pool.define"})
    BY DEF PoolLookup
  <1>4. PoolDefine(r) => Edge(r, "pool.define", {"pool.build"})
    BY DEF PoolDefine
  <1>5. PoolBuild(r) => Edge(r, "pool.build", {"pool.start"})
    BY DEF PoolBuild
  <1>6. PoolStart(r) => Edge(r, "pool.start", {"pool.refresh"})
    BY DEF PoolStart
  <1>7. PoolRefresh(r) => Edge(r, "pool.refresh", {"pool.wait"})
    BY DEF PoolRefresh
  <1>8. PoolWait(r) => Edge(r, "pool.wait", {"poolread"})
    BY DEF PoolWait
  <1>9. PoolRead(r) => Edge(r, "poolread", {"poolread.info"})
    BY DEF PoolRead
  <1>17. PoolReadInfo(r) => Edge(r, "poolread.info", {})
    BY DEF PoolReadInfo
  <1>10. PoolDeleteLookup(r) => Edge(r, "pooldel.lookup", {"pooldel.lock"})
    BY DEF PoolDeleteLookup
  <1>11. PoolDeleteLock(r) => Edge(r, "pooldel.lock", {"pooldel.info"})
    BY DEF PoolDeleteLock
  <1>12. PoolDeleteInfo(r) => Edge(r, "pooldel.info", {"pooldel.stop", "pooldel.delete"})
    BY DEF PoolDeleteInfo
  <1>13. PoolDeleteStop(r) => Edge(r, "pooldel.stop", {"pooldel.delete"})
    BY DEF PoolDeleteStop
  <1>14. PoolDeleteDelete(r) => Edge(r, "pooldel.delete", {"pooldel.undefine"})
    BY DEF PoolDeleteDelete
  <1>15. PoolDeleteUndefine(r) => Edge(r, "pooldel.undefine", {"pooldel.wait"})
    BY DEF PoolDeleteUndefine
  <1>16. PoolDeleteWait(r) => Edge(r, "pooldel.wait", {})
    BY DEF PoolDeleteWait
  <1> HIDE DEF Edge
  <1> QED
    BY <1>2, <1>3, <1>4, <1>5, <1>6, <1>7, <1>8, <1>9, <1>10, <1>11, <1>12, <1>13, <1>14, <1>15,
       <1>16, <1>17 DEF PoolStep

\* Those of a volume's creates and reads.
LEMMA VolumeEdges ==
  ASSUME TypeOK, NEW r \in VolumeRes, VolumeStep(r)
  PROVE  \/ Edge(r, "vol.lock", {"vol.lookup"})
         \/ Edge(r, "vol.lookup", {"vol.refresh"})
         \/ Edge(r, "vol.refresh", {"vol.prepare"})
         \/ Edge(r, "vol.prepare", {"vol.create"})
         \/ Edge(r, "vol.create", {"vol.adopt", "vol.upload", "vol.wait"})
         \/ Edge(r, "vol.adopt", {"vol.upload", "vol.wait"})
         \/ Edge(r, "vol.upload", {"vol.wait"})
         \/ Edge(r, "vol.wait", {"volread.lookup"})
         \/ Edge(r, "volread.lookup", {"volread.pool", "volread.active"}) /\ pst' = pst
         \/ Edge(r, "volread.active", {}) /\ pst' = pst
         \/ Edge(r, "volread.active", {"volread.start"}) /\ pst[PoolOf(r)] # "active"
         \/ Edge(r, "volread.start", {})
         \/ Edge(r, "volread.start", {"volread.lookup"}) /\ pst'[PoolOf(r)] = "active"
         \/ Edge(r, "volread.pool", {"volread.info"})
         \/ Edge(r, "volread.info", {"volread.desc"})
         \/ Edge(r, "volread.desc", {})
  <1>1. r \in Resource /\ PoolOf(r) \in Pool
    BY ResourceAssumption, PoolOfType DEF VolLike
  <1> USE <1>1, GoesTo DEF Edge
  <1>2. VolumeLock(r) => Edge(r, "vol.lock", {"vol.lookup"})
    BY DEF VolumeLock
  <1>3. VolumeLookup(r) => Edge(r, "vol.lookup", {"vol.refresh"})
    BY DEF VolumeLookup
  <1>4. VolumeRefresh(r) => Edge(r, "vol.refresh", {"vol.prepare"})
    BY DEF VolumeRefresh
  <1>5. VolumePrepare(r) => Edge(r, "vol.prepare", {"vol.create"})
    BY DEF VolumePrepare
  <1>6. AfterCreate(r) \in {"vol.upload", "vol.wait"}
    BY DEF AfterCreate
  <1>7. VolumeCreate(r) => Edge(r, "vol.create", {"vol.adopt", "vol.upload", "vol.wait"})
    BY <1>6 DEF VolumeCreate
  <1>8. VolumeAdopt(r) => Edge(r, "vol.adopt", {"vol.upload", "vol.wait"})
    BY <1>6 DEF VolumeAdopt
  <1>9. VolumeUpload(r) => Edge(r, "vol.upload", {"vol.wait"})
    BY DEF VolumeUpload
  <1>10. VolumeWait(r) => Edge(r, "vol.wait", {"volread.lookup"})
    BY DEF VolumeWait
  <1>11. VolumeReadLookup(r) =>
           Edge(r, "volread.lookup", {"volread.pool", "volread.active"}) /\ pst' = pst
    BY DEF VolumeReadLookup, libvirtVars
  <1>12. VolumeReadActive(r) =>
           \/ Edge(r, "volread.active", {}) /\ pst' = pst
           \/ Edge(r, "volread.active", {"volread.start"}) /\ pst[PoolOf(r)] # "active"
    BY DEF VolumeReadActive, libvirtVars
  <1>13. VolumeReadStart(r) =>
           \/ Edge(r, "volread.start", {})
           \/ Edge(r, "volread.start", {"volread.lookup"}) /\ pst'[PoolOf(r)] = "active"
    <2>1. StoragePoolCreate(PoolOf(r), handle[r]) => pst'[PoolOf(r)] = "active"
      BY DEF StoragePoolCreate, SetPool, TypeOK, LibvirtTypeOK
    <2> QED
      BY <2>1 DEF VolumeReadStart
  <1>14. VolumeReadPool(r) => Edge(r, "volread.pool", {"volread.info"})
    BY DEF VolumeReadPool
  <1>15. VolumeReadInfo(r) => Edge(r, "volread.info", {"volread.desc"})
    BY DEF VolumeReadInfo
  <1>16. VolumeReadDesc(r) => Edge(r, "volread.desc", {})
    BY DEF VolumeReadDesc
  <1> HIDE DEF Edge
  <1> QED
    BY <1>2, <1>3, <1>4, <1>5, <1>7, <1>8, <1>9, <1>10, <1>11, <1>12, <1>13, <1>14, <1>15,
       <1>16 DEF VolumeStep

\* Those of volumeDelete.
LEMMA DeleteEdges ==
  ASSUME TypeOK, NEW r \in VolLike, DeleteStep(r)
  PROVE  \/ Edge(r, "del.lookup", {"del.pool"})
         \/ Edge(r, "del.pool", {"del.lock"})
         \/ Edge(r, "del.lock", {"del.refresh"})
         \/ Edge(r, "del.refresh", {"del.delete"})
         \/ Edge(r, "del.delete", {"del.wait"})
         \/ Edge(r, "del.wait", {})
  <1>1. r \in Resource
    BY ResourceAssumption
  <1> USE <1>1, GoesTo DEF Edge
  <1>2. DeleteLookup(r) => Edge(r, "del.lookup", {"del.pool"})
    BY DEF DeleteLookup
  <1>3. DeletePool(r) => Edge(r, "del.pool", {"del.lock"})
    BY DEF DeletePool
  <1>4. DeleteLock(r) => Edge(r, "del.lock", {"del.refresh"})
    BY DEF DeleteLock
  <1>5. DeleteRefresh(r) => Edge(r, "del.refresh", {"del.delete"})
    BY DEF DeleteRefresh
  <1>6. DeleteVolume(r) => Edge(r, "del.delete", {"del.wait"})
    BY DEF DeleteVolume
  <1>7. DeleteWait(r) => Edge(r, "del.wait", {})
    BY DEF DeleteWait
  <1> HIDE DEF Edge
  <1> QED
    BY <1>2, <1>3, <1>4, <1>5, <1>6, <1>7 DEF DeleteStep

\* Those of the creates and reads of cloud-init disks and ignition files.
LEMMA DiskEdges ==
  ASSUME TypeOK, NEW r \in DiskRes, DiskStep(r)
  PROVE  \/ Edge(r, "disk.lookup", {"disk.lock"})
         \/ Edge(r, "disk.lock", {"disk.refresh"})
         \/ Edge(r, "disk.refresh", {"disk.create"})
         \/ Edge(r, "disk.create", {"disk.upload"})
         \/ Edge(r, "disk.upload", {"diskread.lookup"})
         \/ Edge(r, "diskread.lookup", {"diskread.pool"})
         \/ Edge(r, "diskread.pool", {"diskread.load"})
         \/ Edge(r, "diskread.load", {})
  <1>1. r \in Resource
    BY ResourceAssumption DEF VolLike
  <1> USE <1>1, GoesTo DEF Edge
  <1>2. DiskLookup(r) => Edge(r, "disk.lookup", {"disk.lock"})
    BY DEF DiskLookup
  <1>3. DiskLock(r) => Edge(r, "disk.lock", {"disk.refresh"})
    BY DEF DiskLock
  <1>4. DiskRefresh(r) => Edge(r, "disk.refresh", {"disk.create"})
    BY DEF DiskRefresh
  <1>5. DiskCreate(r) => Edge(r, "disk.create", {"disk.upload"})
    BY DEF DiskCreate
  <1>6. DiskUpload(r) => Edge(r, "disk.upload", {"diskread.lookup"})
    <2>1. pc' = [pc EXCEPT ![r] = "diskread.lookup"] => pc'[r] = "diskread.lookup"
      BY DEF TypeOK
    <2> QED
      BY <2>1 DEF DiskUpload
  <1>7. DiskReadLookup(r) => Edge(r, "diskread.lookup", {"diskread.pool"})
    BY DEF DiskReadLookup
  <1>8. DiskReadPool(r) => Edge(r, "diskread.pool", {"diskread.load"})
    BY DEF DiskReadPool
  <1>9. DiskReadLoad(r) => Edge(r, "diskread.load", {})
    BY DEF DiskReadLoad
  <1> HIDE DEF Edge
  <1> QED
    BY <1>2, <1>3, <1>4, <1>5, <1>6, <1>7, <1>8, <1>9 DEF DiskStep

\* A handler's own call leaves fewer to make.
LEMMA HandlerShortens ==
  ASSUME TypeOK, NEW r \in Resource, HandlerStep(r)
  PROVE  CallsLeft(r)' < CallsLeft(r) /\ CallsLeft(r)' <= CallsLeft(r)
  <1> DEFINE before == pc[r]
             after == pc'[r]
             up == pst[PoolOf(r)] = "active"
             upAfter == pst'[PoolOf(r)] = "active"
             reads == {"volread.lookup", "volread.active"}
  <1>1. /\ CallsLeft(r) = IF before \in reads /\ up THEN CallsFrom(before) - 3 ELSE CallsFrom(before)
        /\ CallsLeft(r)' = IF after \in reads /\ upAfter THEN CallsFrom(after) - 3
                           ELSE CallsFrom(after)
    BY DEF CallsLeft, PoolOf
  <1>2. CASE r \in PoolRes /\ PoolStep(r)
    BY <1>1, <1>2, PoolEdges, CallsFromIs DEF Edge
  <1>3. CASE r \in VolumeRes /\ VolumeStep(r)
    BY <1>1, <1>3, VolumeEdges, CallsFromIs DEF Edge
  <1>4. CASE r \in DiskRes /\ DiskStep(r)
    BY <1>1, <1>4, DiskEdges, CallsFromIs DEF Edge
  <1>5. CASE r \in VolLike /\ DeleteStep(r)
    BY <1>1, <1>5, DeleteEdges, CallsFromIs DEF Edge
  <1> QED
    BY <1>2, <1>3, <1>4, <1>5 DEF HandlerStep

\* Somebody else's step leaves the handler where it is, or ends it.
LEMMA OthersStay ==
  ASSUME IInv, NEW r \in Resource, op[r] # "none", Next, ~HandlerStep(r)
  PROVE  pc'[r] \in {pc[r], "idle"}
  <1>1. ASSUME NEW q \in Resource, HandlerStep(q) PROVE pc'[r] = pc[r]
    BY <1>1, HandlerShape DEF Shape, Stays, Enters, Leaves, Returns, Moves, Return, IInv, TypeOK
  <1>2. ASSUME NEW q \in Resource, BeginCreate(q) \/ BeginRead(q) \/ BeginDelete(q)
        PROVE  pc'[r] = pc[r]
    BY <1>2 DEF BeginCreate, BeginRead, BeginDelete, Begin, IInv, TypeOK
  <1>3. CASE OutsideStep
    BY <1>3 DEF OutsideStep, OutsideStop, OutsideDelete, OutsideUndefine, Crash, handlerVars
  <1> QED
    BY <1>1, <1>2, <1>3 DEF Next

\* For any number of handlers and with any call failing: an operation has at most 16 calls
\* left, each of its calls leaves fewer, and nothing but a stop of a volume's pool gives it
\* more to do.
THEOREM CallsShorten ==
  Spec => [](\A r \in Resource : CallsLeft(r) \in 0 .. 16) /\ [][CallsRunOut]_vars
  <1>1. IInv => \A r \in Resource : CallsLeft(r) \in 0 .. 16
    BY CallsLeftType DEF IInv
  <1>2. ASSUME IInv, Next, NEW r \in Resource, op[r] # "none",
               r \in VolumeRes => ~Stops(PoolOf(r)), ~HandlerStep(r)
        PROVE  CallsLeft(r)' <= CallsLeft(r)
    <2>1. pc'[r] \in {pc[r], "idle"}
      BY <1>2, OthersStay
    <2>2. pc[r] \in {"volread.lookup", "volread.active"} => r \in VolumeRes
      BY <1>2 DEF IInv, TypeOK, LabelOf, PoolLabel, DiskLabel, PoolSection, DiskSection,
         DeleteSection, DeleteLabels, PoolReads
    <2>3. pc[r] \in {"volread.lookup", "volread.active"} /\ pst[PoolOf(r)] = "active" =>
            pst'[PoolOf(r)] = "active"
      BY <1>2, <2>2 DEF Stops
    <2>4. CallsLeft(r) \in 0 .. 16 /\ CallsFrom("idle") = 0
      BY <1>2, CallsLeftType, CallsFromIs DEF IInv
    <2>5. CASE pc'[r] = "idle"
      <3>1. CallsLeft(r)' = 0
        BY <2>4, <2>5 DEF CallsLeft
      <3> QED
        BY <2>4, <3>1
    <2>6. CASE pc'[r] = pc[r]
      <3>1. CallsFrom(pc[r]) \in 0 .. 16
        <4>1. pc[r] \in LabelsOf
          BY <1>2, SubLabels DEF IInv, TypeOK
        <4> QED
          BY <4>1, CallsFromIs DEF LabelsOf, PoolLabel, VolumeLabel, DiskLabel, PoolSection,
             VolumeSection, DiskSection, DeleteSection, DeleteLabels, VolumeReads, PoolReads
      <3>2. CallsLeft(r)' = IF /\ pc[r] \in {"volread.lookup", "volread.active"}
                               /\ pst'[PoolOf(r)] = "active"
                            THEN CallsFrom(pc[r]) - 3
                            ELSE CallsFrom(pc[r])
        BY <2>6 DEF CallsLeft, PoolOf
      <3> QED
        BY <2>3, <3>1, <3>2 DEF CallsLeft
    <2> QED
      BY <2>1, <2>5, <2>6
  <1>3. ASSUME IInv, Next, NEW r \in Resource, HandlerStep(r)
        PROVE  CallsLeft(r)' <= CallsLeft(r) /\ CallsLeft(r)' < CallsLeft(r)
    BY <1>3, HandlerShortens DEF IInv
  <1>4. IInv /\ [Next]_vars => [CallsRunOut]_vars
    BY <1>2, <1>3 DEF CallsRunOut
  <1> QED
    BY <1>1, <1>4, Invariance, PTL DEF Spec
=============================================================================
