\* The orchestrator with failing walks and transfers: three preparation
\* threads and two transfers, walks of up to two entries.
CONSTANTS
  MaxCaptures = 3
  MaxTransfers = 2
  WalkLen = 2
  Faults = TRUE
SPECIFICATION Spec
INVARIANT TypeOK AtMostOneCapture
PROPERTY SaveAfterCapture ImplementsAbstract
\* the front-end may stop sending messages, and the spawn bounds end the run
CHECK_DEADLOCK FALSE
