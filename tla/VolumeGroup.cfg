CONSTANTS
  n1 = n1
  n2 = n2
  n3 = n3
  Nodes = {n1, n2, n3}
  NoNode = NoNode
  Align = 2
  TotalSize = 5
  MinSize = 1
  MaxSize = 4
  MaxVolCnt = 2
  AllowEmptyNode = TRUE
  MinLocalPct = 20
  MaxRemoteVolumeCount = 3
  Capacity <- MCCapacity
  MaxVolumes = 2
  Shifting = {n2}
  MaxShifts = 2
  MaxCuts = 1
  MaxFaults = 2
SPECIFICATION Spec
INVARIANTS
  TypeOK
  MembersApart
  ControlComplete
  NeverStuck
PROPERTIES
  NoMemberTakenAway
CHECK_DEADLOCK FALSE
