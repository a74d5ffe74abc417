SPECIFICATION FairSpec
CONSTANTS
  Capacity = 2
  MaxEvents = 2
INVARIANTS
  TypeOK
PROPERTIES
  SilentStaysOut
  PoolComesBack
  LockFollowsNode
  LossNoticed
  NodeGonePoolGone
  LocalStorageReported
CHECK_DEADLOCK FALSE
