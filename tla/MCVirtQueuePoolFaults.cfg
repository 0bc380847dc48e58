\* Pool strategy with two worker threads, EVENT_IDX negotiated or not, with guest-caused faults.
CONSTANTS
  Queues <- MCQueues
  MaxChains = 3
  QueueSize = 2
  PoolSize = 2
  GuestFaults = TRUE
SPECIFICATION FairSpec
INVARIANT NoLostWakeup
INVARIANT NoLostInterrupt
PROPERTY ImplementsAbstract
\* The guest may stop publishing; the event loop then waits in epoll forever, with guest-caused faults.
CHECK_DEADLOCK FALSE
