--------------------------- MODULE VolumeResource ---------------------------
(***************************************************************************)
(* libvirt/resource_libvirt_volume.go and volume.go: create and read of a   *)
(* libvirt_volume, and volumeDelete, which libvirt_cloudinit_disk and       *)
(* libvirt_ignition use too.                                                *)
(***************************************************************************)
EXTENDS Handlers

CONSTANTS HasSource,    \* the libvirt_volume resources with attribute "source"
          BaseKey       \* BaseKey[r]: the key of r's base volume, or None

ASSUME VolumeAssumption ==
    /\ HasSource \subseteq VolumeRes
    /\ BaseKey \in [VolumeRes -> Key \union {None}]

-----------------------------------------------------------------------------
(* resourceLibvirtVolumeCreate: lock first, then look the pool up.          *)

VolumeLock(r) == Lock(r, "vol.lock", "vol.lookup")

VolumeLookup(r) ==
    /\ pc[r] = "vol.lookup"
    /\ \/ Defined(PoolOf(r)) /\ GotoWithHandle(r, "vol.refresh", puid[PoolOf(r)])
       \/ (~Defined(PoolOf(r)) \/ MayFail) /\ Return(r, d[r])
    /\ UNCHANGED libvirtVars

\* RetryContext around StoragePoolRefresh: tried again until the create timeout.
VolumeRefresh(r) ==
    /\ pc[r] = "vol.refresh"
    /\ \/ Usable(PoolOf(r), handle[r]) /\ Goto(r, "vol.prepare")
       \/ (~Usable(PoolOf(r), handle[r]) \/ MayFail) /\ Return(r, d[r])
    /\ UNCHANGED libvirtVars

\* The definition: conflicting attributes, the image's type and size, or the
\* base volume's description.  A base volume's pool is not locked.
VolumePrepare(r) ==
    /\ pc[r] = "vol.prepare"
    /\ LET based == r \notin HasSource /\ BaseKey[r] # None
       IN  \/ (based => Visible(BaseKey[r])) /\ Goto(r, "vol.create")
           \/ ((based /\ ~Visible(BaseKey[r])) \/ MayFail) /\ Return(r, d[r])
    /\ UNCHANGED libvirtVars

AfterCreate(r) == IF r \in HasSource THEN "vol.upload" ELSE "vol.wait"

\* StorageVolCreateXML, then d.SetId(volume.Key).  A volume of that name that
\* exists already is no error.
VolumeCreate(r) ==
    /\ pc[r] = "vol.create"
    /\ \/ /\ StorageVolCreateXML(KeyOf[r], handle[r], r)
          /\ GotoWithId(r, AfterCreate(r), KeyOf[r])
       \/ /\ Usable(PoolOf(r), handle[r]) /\ vols[KeyOf[r]] # None
          /\ Goto(r, "vol.adopt")
          /\ UNCHANGED libvirtVars
       \/ (~Usable(PoolOf(r), handle[r]) \/ MayFail) /\ ReturnError(r)

\* "oops, volume exists already, read it and move on"
VolumeAdopt(r) ==
    /\ pc[r] = "vol.adopt"
    /\ \/ Visible(KeyOf[r]) /\ GotoWithId(r, AfterCreate(r), KeyOf[r])
       \/ (~Visible(KeyOf[r]) \/ MayFail) /\ Return(r, d[r])
    /\ UNCHANGED libvirtVars

\* img.Import through newCopier.  A failed upload may have written a part.  The code
\* means to throw the id away then, but d.Set("id", "") names no attribute of the
\* schema, its error is not looked at, and the id stays.
VolumeUpload(r) ==
    /\ pc[r] = "vol.upload"
    /\ \/ StorageVolUpload(KeyOf[r], r) /\ (Goto(r, "vol.wait") \/ (MayFail /\ Return(r, d[r])))
       \/ (~Visible(KeyOf[r]) \/ MayFail) /\ ReturnError(r)

\* waitForStateVolumeExists, one minute at most; then the read, under the lock.
VolumeWait(r) ==
    /\ pc[r] = "vol.wait"
    /\ \/ Visible(d[r]) /\ Goto(r, "volread.lookup")
       \/ (~Visible(d[r]) \/ MayFail) /\ Return(r, d[r])
    /\ UNCHANGED libvirtVars

-----------------------------------------------------------------------------
(* resourceLibvirtVolumeRead: the RetryContext loop of lookup, pool state   *)
(* and pool start, without the pool mutex when Terraform refreshes.         *)

VolumeReadLookup(r) ==
    /\ pc[r] = "volread.lookup"
    /\ \/ Visible(d[r]) /\ Goto(r, "volread.pool")
       \/ ~Visible(d[r]) /\ Goto(r, "volread.active")
       \/ MayFail /\ Return(r, d[r])
    /\ UNCHANGED libvirtVars

\* StoragePoolLookupByName and StoragePoolIsActive.  For an active pool the
\* error of the earlier lookup stands: ErrNoStorageVol, so d.SetId("").
VolumeReadActive(r) ==
    /\ pc[r] = "volread.active"
    /\ \/ pst[PoolOf(r)] = "active" /\ Return(r, None)
       \/ /\ Defined(PoolOf(r)) /\ pst[PoolOf(r)] # "active"
          /\ GotoWithHandle(r, "volread.start", puid[PoolOf(r)])
       \/ (~Defined(PoolOf(r)) \/ MayFail) /\ Return(r, d[r])
    /\ UNCHANGED libvirtVars

VolumeReadStart(r) ==
    /\ pc[r] = "volread.start"
    /\ \/ StoragePoolCreate(PoolOf(r), handle[r]) /\ Goto(r, "volread.lookup")
       \/ (~CanStart(PoolOf(r), handle[r]) \/ MayFail) /\ ReturnError(r)

VolumeReadPool(r) ==
    /\ pc[r] = "volread.pool"
    /\ \/ Defined(PoolOf(r)) /\ Goto(r, "volread.info")
       \/ (~Defined(PoolOf(r)) \/ MayFail) /\ Return(r, d[r])
    /\ UNCHANGED libvirtVars

\* StorageVolGetInfo handles a volume that has gone since its lookup.
VolumeReadInfo(r) ==
    /\ pc[r] = "volread.info"
    /\ \/ Visible(d[r]) /\ Goto(r, "volread.desc")
       \/ ~Visible(d[r]) /\ ~Unavailable(d[r]) /\ Return(r, None)
       \/ (Unavailable(d[r]) \/ MayFail) /\ Return(r, d[r])
    /\ UNCHANGED libvirtVars

\* StorageVolGetXMLDesc does not: a volume that has gone since is an error, and its id
\* stays, as it does when the description is read.
VolumeReadDesc(r) ==
    /\ pc[r] = "volread.desc"
    /\ Return(r, d[r])
    /\ UNCHANGED libvirtVars

-----------------------------------------------------------------------------
(* volumeDelete.  The lookups come before the lock.                         *)

\* "Volume already deleted.": a volume that is not found needs no deletion.
DeleteLookup(r) ==
    /\ pc[r] = "del.lookup"
    /\ \/ Visible(d[r]) /\ Goto(r, "del.pool")
       \/ ~Visible(d[r]) /\ Return(r, None)
       \/ MayFail /\ Return(r, d[r])
    /\ UNCHANGED libvirtVars

DeletePool(r) ==
    /\ pc[r] = "del.pool"
    /\ \/ Defined(PoolOf(r)) /\ GotoWithHandle(r, "del.lock", puid[PoolOf(r)])
       \/ (~Defined(PoolOf(r)) \/ MayFail) /\ Return(r, d[r])
    /\ UNCHANGED libvirtVars

\* Bug: the volume is deleted without the mutex of its pool.
DeleteUnlocked(r) ==
    /\ pc[r] = "del.lock"
    /\ Goto(r, "del.refresh")
    /\ UNCHANGED libvirtVars

DeleteLock(r) == Lock(r, "del.lock", "del.refresh")

\* waitForSuccess: tried again for five minutes, holding the lock.
DeleteRefresh(r) ==
    /\ pc[r] = "del.refresh"
    /\ \/ Usable(PoolOf(r), handle[r]) /\ Goto(r, "del.delete")
       \/ (~Usable(PoolOf(r), handle[r]) \/ MayFail) /\ Return(r, d[r])
    /\ UNCHANGED libvirtVars

\* Bug: a volume that is gone when it is to be deleted is an error.
DeleteVolumeStrict(r) ==
    /\ pc[r] = "del.delete"
    /\ \/ StorageVolDelete(d[r]) /\ Goto(r, "del.wait")
       \/ (~Visible(d[r]) \/ MayFail) /\ ReturnError(r)

\* StorageVolGetXMLDesc (a workaround, its answer is not used), then
\* StorageVolDelete; a volume that has gone meanwhile is no error.
DeleteVolume(r) ==
    /\ pc[r] = "del.delete"
    /\ \/ StorageVolDelete(d[r]) /\ Goto(r, "del.wait")
       \/ /\ ~Visible(d[r]) /\ ~Unavailable(d[r])
          /\ Return(r, None) /\ UNCHANGED libvirtVars
       \/ (Unavailable(d[r]) \/ MayFail) /\ ReturnError(r)

\* Bug: Pending and Target swapped, as in the wait after a create.
DeleteWaitSwapped(r) ==
    /\ pc[r] = "del.wait"
    /\ \/ Visible(d[r]) /\ Return(r, None)
       \/ (~Visible(d[r]) \/ MayFail) /\ Return(r, d[r])
    /\ UNCHANGED libvirtVars

\* volumeWaitDeleted: until the key is not found, one minute at most.
DeleteWait(r) ==
    /\ pc[r] = "del.wait"
    /\ \/ ~Visible(d[r]) /\ Return(r, None)
       \/ (Visible(d[r]) \/ MayFail) /\ Return(r, d[r])
    /\ UNCHANGED libvirtVars

-----------------------------------------------------------------------------

VolumeStep(r) ==
    \/ VolumeLock(r)
    \/ VolumeLookup(r)
    \/ VolumeRefresh(r)
    \/ VolumePrepare(r)
    \/ VolumeCreate(r)
    \/ VolumeAdopt(r)
    \/ VolumeUpload(r)
    \/ VolumeWait(r)
    \/ VolumeReadLookup(r)
    \/ VolumeReadActive(r)
    \/ VolumeReadStart(r)
    \/ VolumeReadPool(r)
    \/ VolumeReadInfo(r)
    \/ VolumeReadDesc(r)

DeleteStep(r) ==
    \/ DeleteLookup(r)
    \/ DeletePool(r)
    \/ DeleteLock(r)
    \/ DeleteRefresh(r)
    \/ DeleteVolume(r)
    \/ DeleteWait(r)
=============================================================================
