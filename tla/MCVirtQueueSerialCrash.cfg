\* Whether every chain is completed in the serial strategy when the guest
\* submits a chain the Reader/Writer or handle_message rejects.  TLC finds it
\* violated: process_queue_serial unwrap()s the error and the event-loop
\* thread panics, so no later chain on any queue is served.
CONSTANTS
  Queues <- MCQueues
  MaxChains = 2
  QueueSize = 2
  PoolSize = 0
  GuestFaults = TRUE
SPECIFICATION FairSpec
PROPERTY EveryChainCompleted
\* The guest may stop publishing; the event loop then waits in epoll forever.
CHECK_DEADLOCK FALSE
