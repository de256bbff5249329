---------------------------- MODULE DiskResource ----------------------------
(***************************************************************************)
(* libvirt/cloudinit_def.go, coreos_ignition_def.go and the two resource    *)
(* files above them: libvirt_cloudinit_disk and libvirt_ignition, volumes   *)
(* whose content the provider makes itself.  The two uploads are the same   *)
(* sequence of calls; the reads differ.                                     *)
(*                                                                         *)
(* The Terraform id "key;uuid" stands for its key: SplitN(id, ";", 2)[0]    *)
(* takes it apart again.                                                    *)
(***************************************************************************)
EXTENDS Handlers

(* UploadIso and CreateAndUpload: look the pool up first, then lock.        *)

DiskLookup(r) ==
    /\ pc[r] = "disk.lookup"
    /\ \/ Defined(PoolOf(r)) /\ GotoWithHandle(r, "disk.lock", puid[PoolOf(r)])
       \/ (~Defined(PoolOf(r)) \/ MayFail) /\ Return(r, d[r])
    /\ UNCHANGED libvirtVars

\* Bug: the disk is uploaded without the mutex of its pool.
DiskUnlocked(r) ==
    /\ pc[r] = "disk.lock"
    /\ Goto(r, "disk.refresh")
    /\ UNCHANGED libvirtVars

DiskLock(r) == Lock(r, "disk.lock", "disk.refresh")

\* Bug: the refresh is tried again for ever.
DiskRefreshForever(r) ==
    /\ pc[r] = "disk.refresh"
    /\ Usable(PoolOf(r), handle[r])
    /\ Goto(r, "disk.create")
    /\ UNCHANGED libvirtVars

\* waitForSuccess: tried again for five minutes, holding the lock, although a
\* handle that went stale while the lock was awaited never works again.
DiskRefresh(r) ==
    /\ pc[r] = "disk.refresh"
    /\ \/ Usable(PoolOf(r), handle[r]) /\ Goto(r, "disk.create")
       \/ (~Usable(PoolOf(r), handle[r]) \/ MayFail) /\ Return(r, d[r])
    /\ UNCHANGED libvirtVars

\* Bug: a volume of that name is used, as libvirt_volume does.
DiskCreateAdopts(r) ==
    /\ pc[r] = "disk.create"
    /\ \/ StorageVolCreateXML(KeyOf[r], handle[r], r) /\ Goto(r, "disk.upload")
       \/ Visible(KeyOf[r]) /\ Goto(r, "disk.upload") /\ UNCHANGED libvirtVars
       \/ (~Usable(PoolOf(r), handle[r]) \/ MayFail) /\ ReturnError(r)

\* newImage, Size, StorageVolCreateXML: a volume of that name is an error.
DiskCreate(r) ==
    /\ pc[r] = "disk.create"
    /\ \/ StorageVolCreateXML(KeyOf[r], handle[r], r) /\ Goto(r, "disk.upload")
       \/ /\ ~Usable(PoolOf(r), handle[r]) \/ vols[KeyOf[r]] # None \/ MayFail
          /\ ReturnError(r)

\* Bug: the id is built from the pool's handle, not from the volume's key.
DiskUploadPoolId(r) ==
    /\ pc[r] = "disk.upload"
    /\ \/ /\ StorageVolUpload(KeyOf[r], r)
          /\ lock' = Unlocked(r)
          /\ pc' = [pc EXCEPT ![r] = "diskread.lookup"]
          /\ d' = [d EXCEPT ![r] = handle[r]]
          /\ UNCHANGED <<op, handle, state>>
       \/ (~Visible(KeyOf[r]) \/ MayFail) /\ ReturnError(r)

\* img.Import.  UploadIso returns the id and releases the lock; the caller sets
\* the id and reads.  After a failed upload no id is set: the volume stays, and
\* Terraform does not know it.
DiskUpload(r) ==
    /\ pc[r] = "disk.upload"
    /\ \/ /\ StorageVolUpload(KeyOf[r], r)
          /\ \/ /\ lock' = Unlocked(r)
                /\ pc' = [pc EXCEPT ![r] = "diskread.lookup"]
                /\ d' = [d EXCEPT ![r] = KeyOf[r]]
                /\ UNCHANGED <<op, handle, state>>
             \/ MayFail /\ Return(r, d[r])
       \/ (~Visible(KeyOf[r]) \/ MayFail) /\ ReturnError(r)

-----------------------------------------------------------------------------
(* newCloudInitDefFromRemoteISO and newIgnitionDefFromRemoteVol.            *)

\* Only the cloud-init resource takes a volume that is not found for deleted.
DiskReadLookup(r) ==
    /\ pc[r] = "diskread.lookup"
    /\ \/ Visible(d[r]) /\ Goto(r, "diskread.pool")
       \/ ~Visible(d[r]) /\ Return(r, IF r \in CloudinitRes THEN None ELSE d[r])
       \/ MayFail /\ Return(r, d[r])
    /\ UNCHANGED libvirtVars

\* The ignition resource reads no more than the name of the pool.
DiskReadPool(r) ==
    /\ pc[r] = "diskread.pool"
    /\ \/ Defined(PoolOf(r)) /\ r \in CloudinitRes /\ Goto(r, "diskread.load")
       \/ (r \in IgnitionRes \/ ~Defined(PoolOf(r)) \/ MayFail) /\ Return(r, d[r])
    /\ UNCHANGED libvirtVars

\* downloadISO, then the ISO is read for the attributes.
DiskReadLoad(r) ==
    /\ pc[r] = "diskread.load"
    /\ \/ (Visible(d[r]) \/ Unavailable(d[r]) \/ MayFail) /\ Return(r, d[r])
       \/ ~Visible(d[r]) /\ ~Unavailable(d[r]) /\ Return(r, None)
    /\ UNCHANGED libvirtVars

-----------------------------------------------------------------------------

DiskStep(r) ==
    \/ DiskLookup(r)
    \/ DiskLock(r)
    \/ DiskRefresh(r)
    \/ DiskCreate(r)
    \/ DiskUpload(r)
    \/ DiskReadLookup(r)
    \/ DiskReadPool(r)
    \/ DiskReadLoad(r)
=============================================================================
