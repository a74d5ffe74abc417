CONSTANTS
  n1 = n1
  n2 = n2
  Nodes = {n1, n2}
  None = None
  HostNode = n1
  SpdkMode = {}
  Exact = {n2}
  NewVolumes <- MCNewVolumes
  Flaky = {n2}
  Failing = {n2}
  MaxLag = 5
  MaxFaults = 4
SPECIFICATION FairSpec
INVARIANTS
  TypeOK
  LiveVolumeCounted
  ReadyIsBacked
PROPERTIES
  Contract
  BecomesReady
  DeletionCompletes
CHECK_DEADLOCK FALSE
