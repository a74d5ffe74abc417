SPECIFICATION FairSpec
CONSTANTS
  v1 = v1
  v2 = v2
  Volumes = {v1, v2}
  Kernel = {v2}
  Block = {v1}
  Deletable = {v2}
  MinId = 1
  MaxId = 4
  MaxPods = 2
  MaxFaults = 2
INVARIANTS
  TypeOK
  PodOnVolume
  ListensWhereRecorded
  MountReleased
PROPERTIES
  DataKept
  PodStarts
  PodLeaves
CHECK_DEADLOCK FALSE
