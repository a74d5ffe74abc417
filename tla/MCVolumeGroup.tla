--------------------------- MODULE MCVolumeGroup ---------------------------
(* Three storage nodes, one of them larger than the others. *)
EXTENDS VolumeGroup

CONSTANTS n1, n2, n3

MCCapacity == [n \in Nodes |-> IF n = n1 THEN 6 ELSE 4]

=============================================================================
