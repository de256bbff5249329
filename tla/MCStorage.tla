----------------------------- MODULE MCStorage -----------------------------
(***************************************************************************)
(* TLC instances of Storage.  The resources are model values; which of them *)
(* a run has, and what they are called, is in its .cfg file.                *)
(***************************************************************************)
EXTENDS Storage

CONSTANTS pool1, pool2, vol1, vol2, disk1, ign1,    \* resources
          default, other,                           \* pool names
          image, disk, iso                            \* volume keys

\* Every volume lives in the pool "default".
MCKeyPool == [k \in Key |-> default]

\* Two pool resources fight for one name.
MCPoolName == [r \in PoolRes |-> default]

\* A volume and a cloud-init disk with one name between them, or one each.
OneName == [r \in VolLike |-> image]

OwnNames == [r \in VolLike |-> CASE r \notin VolumeRes -> iso
                                 [] r = vol1 -> image
                                 [] OTHER -> disk]

\* No base volumes, or the volume without a source on top of the other one.
NoBase == [r \in VolumeRes |-> None]

OnImage == [r \in VolumeRes |-> IF r = vol1 THEN None ELSE image]
=============================================================================
