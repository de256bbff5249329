---------------------------- MODULE PoolResource ----------------------------
(***************************************************************************)
(* libvirt/resource_libvirt_pool.go: create, read and delete of a           *)
(* libvirt_pool, one action per libvirt call (calls whose failures and      *)
(* effects no other handler can tell apart are one action).                 *)
(***************************************************************************)
EXTENDS Handlers

\* UUIDs that nothing refers to: libvirt draws a new one for a definition.
FreshUuids == {u \in Uuid :
    /\ \A p \in Pool : puid[p] # u
    /\ \A r \in Resource : handle[r] # u /\ d[r] # u /\ state[r] # u}

NewUuid == CHOOSE u \in FreshUuids : TRUE

-----------------------------------------------------------------------------
(* resourceLibvirtPoolCreate.                                               *)

\* A type other than "dir" is refused before the mutex is taken.
PoolLock(r) ==
    \/ Lock(r, "pool.lock", "pool.lookup")
    \/ pc[r] = "pool.lock" /\ MayFail /\ ReturnError(r)

\* Bug: a pool of that name is adopted, as a volume is.
PoolLookupAdopts(r) ==
    /\ pc[r] = "pool.lookup"
    /\ \/ ~Defined(PoolOf(r)) /\ Goto(r, "pool.define")
       \/ Defined(PoolOf(r)) /\ GotoWithHandle(r, "pool.refresh", puid[PoolOf(r)])
    /\ UNCHANGED libvirtVars

\* Only a successful lookup is an error: "storage pool already exists".  Then
\* the definition is built (path check, XSLT).
PoolLookup(r) ==
    /\ pc[r] = "pool.lookup"
    /\ \/ (~Defined(PoolOf(r)) \/ MayFail) /\ Goto(r, "pool.define")
       \/ (Defined(PoolOf(r)) \/ MayFail) /\ Return(r, d[r])
    /\ UNCHANGED libvirtVars

PoolDefine(r) ==
    /\ pc[r] = "pool.define"
    /\ \/ /\ FreshUuids # {}
          /\ StoragePoolDefineXML(PoolOf(r), NewUuid)
          /\ GotoWithHandle(r, "pool.build", NewUuid)
       \/ (Defined(PoolOf(r)) \/ MayFail) /\ ReturnError(r)

\* StoragePoolBuild, then StoragePoolSetAutostart.  From here on an error
\* leaves the pool defined although the resource has no id.
PoolBuild(r) ==
    /\ pc[r] = "pool.build"
    /\ \/ StoragePoolBuild(PoolOf(r), handle[r])
          /\ (Goto(r, "pool.start") \/ (MayFail /\ Return(r, d[r])))
       \/ (~CanBuild(PoolOf(r), handle[r]) \/ MayFail) /\ ReturnError(r)

PoolStart(r) ==
    /\ pc[r] = "pool.start"
    /\ \/ StoragePoolCreate(PoolOf(r), handle[r]) /\ Goto(r, "pool.refresh")
       \/ (~CanStart(PoolOf(r), handle[r]) \/ MayFail) /\ ReturnError(r)

\* StoragePoolRefresh, then d.SetId(uuid): only now Terraform knows the pool.
PoolRefresh(r) ==
    /\ pc[r] = "pool.refresh"
    /\ \/ Usable(PoolOf(r), handle[r]) /\ GotoWithId(r, "pool.wait", handle[r])
       \/ (~Usable(PoolOf(r), handle[r]) \/ MayFail) /\ Return(r, d[r])
    /\ UNCHANGED libvirtVars

\* waitForStatePoolExists: until the lookup succeeds, one minute at most.
PoolWait(r) ==
    /\ pc[r] = "pool.wait"
    /\ \/ IsPool(PoolOf(r), d[r]) /\ Goto(r, "poolread")
       \/ (~IsPool(PoolOf(r), d[r]) \/ MayFail) /\ Return(r, d[r])
    /\ UNCHANGED libvirtVars

-----------------------------------------------------------------------------
(* resourceLibvirtPoolRead: a pool that is gone leaves the state.           *)

PoolRead(r) ==
    /\ pc[r] = "poolread"
    /\ \/ IsPool(PoolOf(r), d[r]) /\ Goto(r, "poolread.info")
       \/ ~IsPool(PoolOf(r), d[r]) /\ Return(r, None)
       \/ MayFail /\ Return(r, d[r])
    /\ UNCHANGED libvirtVars

\* StoragePoolGetInfo and StoragePoolGetXMLDesc fill attributes.  A pool that has gone
\* since the lookup is an error like any other: either way the id stays.
PoolReadInfo(r) ==
    /\ pc[r] = "poolread.info"
    /\ Return(r, d[r])
    /\ UNCHANGED libvirtVars

-----------------------------------------------------------------------------
(* resourceLibvirtPoolDelete.  The lookup comes before the lock.            *)

PoolDeleteLookup(r) ==
    /\ pc[r] = "pooldel.lookup"
    /\ \/ IsPool(PoolOf(r), d[r]) /\ GotoWithHandle(r, "pooldel.lock", d[r])
       \/ ~IsPool(PoolOf(r), d[r]) /\ Return(r, None)
       \/ MayFail /\ Return(r, d[r])
    /\ UNCHANGED libvirtVars

\* Bug: the pool is deleted without its mutex.
PoolDeleteUnlocked(r) ==
    /\ pc[r] = "pooldel.lock"
    /\ Goto(r, "pooldel.info")
    /\ UNCHANGED libvirtVars

PoolDeleteLock(r) == Lock(r, "pooldel.lock", "pooldel.info")

\* StoragePoolGetInfo: only a running pool is stopped.
PoolDeleteInfo(r) ==
    /\ pc[r] = "pooldel.info"
    /\ \/ Usable(PoolOf(r), handle[r]) /\ Goto(r, "pooldel.stop")
       \/ IsPool(PoolOf(r), handle[r]) /\ pst[PoolOf(r)] # "active" /\ Goto(r, "pooldel.delete")
       \/ (~IsPool(PoolOf(r), handle[r]) \/ MayFail) /\ Return(r, d[r])
    /\ UNCHANGED libvirtVars

PoolDeleteStop(r) ==
    /\ pc[r] = "pooldel.stop"
    /\ \/ StoragePoolDestroy(PoolOf(r), handle[r]) /\ Goto(r, "pooldel.delete")
       \/ (~Usable(PoolOf(r), handle[r]) \/ MayFail) /\ ReturnError(r)

\* A pool that still has volumes stays defined, and stopped.
PoolDeleteDelete(r) ==
    /\ pc[r] = "pooldel.delete"
    /\ \/ StoragePoolDelete(PoolOf(r), handle[r]) /\ Goto(r, "pooldel.undefine")
       \/ (~CanDelete(PoolOf(r), handle[r]) \/ MayFail) /\ ReturnError(r)

PoolDeleteUndefine(r) ==
    /\ pc[r] = "pooldel.undefine"
    /\ \/ StoragePoolUndefine(PoolOf(r), handle[r]) /\ Goto(r, "pooldel.wait")
       \/ /\ ~IsPool(PoolOf(r), handle[r]) \/ pst[PoolOf(r)] = "active" \/ MayFail
          /\ ReturnError(r)

\* waitForStatePoolDeleted, still under the lock: until the UUID is unknown.
PoolDeleteWait(r) ==
    /\ pc[r] = "pooldel.wait"
    /\ \/ ~IsPool(PoolOf(r), d[r]) /\ Return(r, None)
       \/ (IsPool(PoolOf(r), d[r]) \/ MayFail) /\ Return(r, d[r])
    /\ UNCHANGED libvirtVars

-----------------------------------------------------------------------------

PoolStep(r) ==
    \/ PoolLock(r)
    \/ PoolLookup(r)
    \/ PoolDefine(r)
    \/ PoolBuild(r)
    \/ PoolStart(r)
    \/ PoolRefresh(r)
    \/ PoolWait(r)
    \/ PoolRead(r)
    \/ PoolReadInfo(r)
    \/ PoolDeleteLookup(r)
    \/ PoolDeleteLock(r)
    \/ PoolDeleteInfo(r)
    \/ PoolDeleteStop(r)
    \/ PoolDeleteDelete(r)
    \/ PoolDeleteUndefine(r)
    \/ PoolDeleteWait(r)
=============================================================================
