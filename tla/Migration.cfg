SPECIFICATION FairSpec
CONSTANTS
  Kinds = {"spdk", "lvm", "mustLocal"}
  MaxFaults = 3
INVARIANTS
  TypeOK
  NeverStranded
  CleanEnd
PROPERTY
  MigrationFinishes
CHECK_DEADLOCK FALSE
