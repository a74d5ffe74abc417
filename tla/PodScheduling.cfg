SPECIFICATION Spec
CONSTANTS
    n1 = n1
    n2 = n2
    p1 = p1
    a = a
    b = b
    None = None
    Nodes <- MCNodes
    Pods <- MCPods
    ClaimsOf <- MCClaimsOf
    Size <- MCSize
    Deletable = {a}
    Capacity = 2
    MaxFaults = 1
    MaxOther = 1
SYMMETRY Symmetry
INVARIANTS
    TypeOK
    VolumesLocal
    ReservationsOwned
CHECK_DEADLOCK FALSE
