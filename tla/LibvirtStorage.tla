--------------------------- MODULE LibvirtStorage ---------------------------
(***************************************************************************)
(* The storage side of the libvirt daemon, as the provider uses it.  This   *)
(* is not code of the repository: each operator is one libvirt call, with   *)
(* the precondition and the effect the handlers count on.                   *)
(*                                                                         *)
(* A pool is found by its name, or by the UUID it was given when it was     *)
(* defined; a definition after an undefine has another UUID.  A volume is   *)
(* its key: in a directory pool the key is the path, so a volume that is    *)
(* deleted and created again under its name has the same key.               *)
(***************************************************************************)
EXTENDS FiniteSets

CONSTANTS Pool,         \* pool names
          Key,          \* volume keys
          KeyPool,      \* KeyPool[k]: the pool whose directory holds k
          Uuid,         \* pool UUIDs
          Resource,     \* the Terraform resources (the authors of volumes)
          Foreign,      \* the author of a volume made outside Terraform
          None          \* nothing

ASSUME KeyPoolAssumption == KeyPool \in [Key -> Pool]
ASSUME NoneAssumption ==
    /\ None \notin Resource
    /\ None \notin Uuid
    /\ None \notin Key
    /\ None # Foreign
    /\ Foreign \notin Resource

VARIABLES pst,      \* pst[p]: the state of pool p
          puid,     \* puid[p]: its UUID, None when it is not defined
          vols,     \* vols[k]: who created the volume k, None when there is none
          data      \* data[k]: the resource whose source was last written to k

libvirtVars == <<pst, puid, vols, data>>

\* "defined": without its directory; "inactive": built but not started.
PoolState == {"absent", "defined", "inactive", "active"}

LibvirtTypeOK ==
    /\ pst \in [Pool -> PoolState]
    /\ puid \in [Pool -> Uuid \union {None}]
    /\ vols \in [Key -> Resource \union {Foreign, None}]
    /\ data \in [Key -> Resource \union {None}]

\* Pools that were there before, with or without volumes of somebody else.
LibvirtInit ==
    /\ pst \in [Pool -> {"absent", "active"}]
    /\ \E u \in [Pool -> Uuid] :
         /\ \A p, q \in Pool : u[p] = u[q] => p = q
         /\ puid = [p \in Pool |-> IF pst[p] = "absent" THEN None ELSE u[p]]
    /\ vols \in [Key -> {Foreign, None}]
    /\ \A k \in Key : pst[KeyPool[k]] = "absent" => vols[k] = None
    /\ data = [k \in Key |-> None]

-----------------------------------------------------------------------------
(* Pools.                                                                   *)

Defined(p) == pst[p] # "absent"

\* StoragePoolLookupByUUID, and any call on a handle with that UUID.
IsPool(p, u) == Defined(p) /\ puid[p] = u

Usable(p, u) == IsPool(p, u) /\ pst[p] = "active"

CanBuild(p, u) == IsPool(p, u) /\ pst[p] \in {"defined", "inactive"}

CanStart(p, u) == IsPool(p, u) /\ pst[p] = "inactive"

CanDelete(p, u) ==
    /\ IsPool(p, u)
    /\ pst[p] = "inactive"
    /\ \A k \in Key : KeyPool[k] = p => vols[k] = None

SetPool(p, s) == pst' = [pst EXCEPT ![p] = s]

StoragePoolDefineXML(p, u) ==
    /\ ~Defined(p)
    /\ SetPool(p, "defined")
    /\ puid' = [puid EXCEPT ![p] = u]
    /\ UNCHANGED <<vols, data>>

StoragePoolBuild(p, u) ==
    /\ CanBuild(p, u)
    /\ SetPool(p, "inactive")
    /\ UNCHANGED <<puid, vols, data>>

\* Starting an active pool is an error.
StoragePoolCreate(p, u) ==
    /\ CanStart(p, u)
    /\ SetPool(p, "active")
    /\ UNCHANGED <<puid, vols, data>>

StoragePoolDestroy(p, u) ==
    /\ Usable(p, u)
    /\ SetPool(p, "inactive")
    /\ UNCHANGED <<puid, vols, data>>

\* Removes the pool's directory, which must be empty.
StoragePoolDelete(p, u) ==
    /\ CanDelete(p, u)
    /\ SetPool(p, "defined")
    /\ UNCHANGED <<puid, vols, data>>

StoragePoolUndefine(p, u) ==
    /\ IsPool(p, u)
    /\ pst[p] # "active"
    /\ SetPool(p, "absent")
    /\ puid' = [puid EXCEPT ![p] = None]
    /\ UNCHANGED <<vols, data>>

-----------------------------------------------------------------------------
(* Volumes.                                                                 *)

\* Volumes are only known while their pool is active: StorageVolLookupByKey
\* answers ErrNoStorageVol for a volume of a stopped pool.
Visible(k) == pst[KeyPool[k]] = "active" /\ vols[k] # None

\* Calls on a looked up volume tell the two apart.
Unavailable(k) == pst[KeyPool[k]] # "active"

StorageVolCreateXML(k, u, author) ==
    /\ Usable(KeyPool[k], u)
    /\ vols[k] = None
    /\ vols' = [vols EXCEPT ![k] = author]
    /\ data' = [data EXCEPT ![k] = None]
    /\ UNCHANGED <<pst, puid>>

StorageVolUpload(k, author) ==
    /\ Visible(k)
    /\ data' = [data EXCEPT ![k] = author]
    /\ UNCHANGED <<pst, puid, vols>>

StorageVolDelete(k) ==
    /\ Visible(k)
    /\ vols' = [vols EXCEPT ![k] = None]
    /\ data' = [data EXCEPT ![k] = None]
    /\ UNCHANGED <<pst, puid>>
=============================================================================
