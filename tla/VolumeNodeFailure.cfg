CONSTANTS
  n1 = n1
  n2 = n2
  Nodes = {n1, n2}
  None = None
  HostNode = n1
  SpdkMode = {}
  Exact = {n1, n2}
  NewVolumes <- MCNewVolumes
  Flaky = {}
  Failing = {n2}
  MaxLag = 3
  MaxFaults = 0
SPECIFICATION FairSpec
PROPERTIES
  NodeFailureDeletionCompletes
CHECK_DEADLOCK FALSE
