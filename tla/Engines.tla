------------------------------ MODULE Engines ------------------------------
(***************************************************************************)
(* The pool engines below the Disk-Agent, and the LVM and SPDK calls they  *)
(* make.  An operator is the set of the sizes that the logical volume can  *)
(* have after the call, 0 where there is none: the empty set, if the call  *)
(* returns an error.  lv is its size before the call, free the free size   *)
(* of the volume group or lvstore, in extents.  The volume group is on one *)
(* device: its stripe unit is the extent, so linear and striped volumes do *)
(* not differ.                                                             *)
(***************************************************************************)
EXTENDS Naturals

Only(size, cond) == {x \in {size} : cond}

-----------------------------------------------------------------------------
(* LVM commands. *)
CreateLinearLV(size, free) == Only(size, size <= free)
CreateStripeLV(size, free) == CreateLinearLV(size, free)
RemoveLV(lv) == {0}
CreateSnapshotLinear(lv, size, free) == Only(size, lv # 0 /\ size <= free)
MergeSnapshot(snapLv) == {0}
Lvextend(lv, delta, free) == Only(lv + delta, lv > 0 /\ delta <= free)

(* lvs: the logical volumes of the wanted name in the volume group. *)
ListLVInVG(lv) == Only(lv, lv # 0)

isVolumeExistent(lv) == ListLVInVG(lv) # {}

(* The LVM engine: a volume that is there is taken for the one wanted if it
   has the size. *)
Allocate(lv, size, free) ==
    IF isVolumeExistent(lv) THEN Only(lv, lv = size)
    ELSE CreateLinearLV(size, free) \cup CreateStripeLV(size, free)

LvmCreateVolume(lv, size, free) == Allocate(lv, size, free)

LvmCreateSnapshot(lv, snapLv, size, free) ==
    IF isVolumeExistent(snapLv) THEN Only(snapLv, snapLv = size)
    ELSE CreateSnapshotLinear(lv, size, free)

LvmDeleteVolume(lv) == IF isVolumeExistent(lv) THEN RemoveLV(lv) ELSE {0}

LvmMergeSnapshot(snapLv, open) ==
    IF isVolumeExistent(snapLv) /\ ~open THEN MergeSnapshot(snapLv) ELSE {}

(* Mutant: lvextend is given the new size, where it takes the difference. *)
LvmExpandVolume_Size(lv, size, original, free) ==
    Only(lv + size, lv > 0 /\ size - original <= free)

LvmExpandVolume(lv, size, original, free) == Lvextend(lv, size - original, free)

-----------------------------------------------------------------------------
(* SPDK service: online tells whether the lvstore is loaded.  Without it an lvol
   is just not found. *)
CreateLvol(lv, size, free, online) ==
    IF lv # 0 THEN Only(lv, online) ELSE Only(size, online /\ size <= free)

DeleteLvol(lv, online) == {IF online THEN 0 ELSE lv}

(* Mutant: the lvol is set to the difference, as lvextend is. *)
ResizeLvol_Difference(lv, size, original, free, online) ==
    Only(size - original, lv # 0 /\ online /\ size <= lv + free)

(* That the lvol is not found is the error it returns: nothing resets it. *)
ResizeLvol(lv, size, original, free, online) ==
    Only(size, lv # 0 /\ online /\ size <= lv + free)

CreateLvolSnapshot(snapLv, size, online) == Only(IF snapLv = 0 THEN size ELSE snapLv, online)
=============================================================================
