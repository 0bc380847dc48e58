\* Whether only one serialize/deserialize_and_apply thread runs at a time
\* (spec section 4.2).  TLC finds it violated: set_device_state_fd stores
\* the new thread in migration_thread without checking the slot.
CONSTANTS
  MaxCaptures = 2
  MaxTransfers = 2
  WalkLen = 1
  Faults = FALSE
SPECIFICATION Spec
INVARIANT AtMostOneTransfer
CHECK_DEADLOCK FALSE
