\* Whether a save never runs beside a preparation walk (spec section 8).
\* TLC finds it violated: F_LOG_ALL acknowledged again after SAVE spawns a
\* new walk while the serializer reads the inode store.
CONSTANTS
  MaxCaptures = 2
  MaxTransfers = 2
  WalkLen = 1
  Faults = FALSE
SPECIFICATION Spec
INVARIANT NoCaptureDuringSave
CHECK_DEADLOCK FALSE
