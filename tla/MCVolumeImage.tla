--------------------------- MODULE MCVolumeImage ---------------------------
(***************************************************************************)
(* A TLC instance of VolumeImage: two qcow2 images of different sizes, a    *)
(* raw image of a third one, and moments in which there is no source.       *)
(***************************************************************************)
EXTENDS VolumeImage

CONSTANTS small, large, plain, gone

MCKind == [v \in Version |-> CASE v = plain -> "raw"
                               [] v = gone -> "absent"
                               [] OTHER -> "qcow2"]

MCSize == [v \in Version |-> CASE v = small -> 2
                               [] v = plain -> 3
                               [] v = large -> 4
                               [] OTHER -> 0]
=============================================================================
