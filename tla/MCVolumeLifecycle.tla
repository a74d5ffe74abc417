------------------------- MODULE MCVolumeLifecycle -------------------------
(* One volume and two LVM nodes: the host n1, where it needs no target, and n2,
   where it does. *)
EXTENDS VolumeLifecycle

CONSTANTS n1, n2

MCNewVolumes == {NewVolume(FALSE, TRUE), NewVolume(TRUE, FALSE)}

=============================================================================
