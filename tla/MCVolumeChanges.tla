--------------------------- MODULE MCVolumeChanges ---------------------------
(***************************************************************************)
(* Model values for VolumeChanges.                                         *)
(***************************************************************************)
EXTENDS VolumeChanges, TLC

CONSTANTS s1, s2

MCSnapshots == {s1, s2}
MCNoSnapshots == {}
Symmetry == Permutations({s1, s2})
==============================================================================
