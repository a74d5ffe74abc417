SPECIFICATION Spec
CONSTANTS
    s1 = s1
    s2 = s2
    Stacks = {"lvm", "aio", "raid", "mem"}
    Snapshots <- MCSnapshots
    Capacity = 3
    MaxSize = 2
    Reserved = 2
    MaxCalls = 3
    MaxFaults = 1
SYMMETRY Symmetry
INVARIANTS TypeOK OneSnapshotServed ReadySnapshotBacked ResizedAsAsked VolumeKept
CHECK_DEADLOCK FALSE
