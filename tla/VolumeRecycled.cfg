CONSTANTS
  n1 = n1
  n2 = n2
  Nodes = {n1, n2}
  None = None
  HostNode = n1
  SpdkMode = {}
  Exact = {n1, n2}
  NewVolumes <- MCNewVolumes
  Flaky = {}
  Failing = {}
  MaxLag = 3
  MaxFaults = 0
SPECIFICATION Spec
INVARIANTS
  DeletedVolumeRecycled
CHECK_DEADLOCK FALSE
