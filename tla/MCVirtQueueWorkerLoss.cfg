\* Pool of two workers and guest chains that handle_message rejects.
CONSTANTS
  Queues <- MCQueues
  MaxChains = 3
  QueueSize = 2
  PoolSize = 2
  GuestFaults = TRUE
SPECIFICATION FairSpec
PROPERTY PoolDrains
\* The guest may stop publishing; the event loop then waits in epoll forever.
CHECK_DEADLOCK FALSE
