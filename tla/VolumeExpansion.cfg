SPECIFICATION Spec
CONSTANTS
    s1 = s1
    s2 = s2
    Stacks = {"lvm"}
    Snapshots <- MCNoSnapshots
    Capacity = 6
    MaxSize = 3
    Reserved = 2
    MaxCalls = 1
    MaxFaults = 1
INVARIANTS ExpansionFinished
CHECK_DEADLOCK FALSE
