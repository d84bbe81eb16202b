SPECIFICATION Spec
CONSTANTS
  MaxOut = 4
  FlushAt = 2
  Cap = 3
  HardCap = 4
  StoreCap = 4
  Keep = 1
  Batch = 2
  Mirror = FALSE
  MaxFault = 1
  MaxSwitch = 2
  Mishaps = FALSE
INVARIANTS RecoveredIsPrefix StoreAccepts  SeedBarrier
PROPERTIES BecomesDurable
CHECK_DEADLOCK FALSE
