\* Serial strategy (thread_pool_size = 0), EVENT_IDX negotiated or not.
CONSTANTS
  Queues <- MCQueues
  MaxChains = 3
  QueueSize = 2
  PoolSize = 0
  GuestFaults = FALSE
SPECIFICATION FairSpec
INVARIANT TypeOK
INVARIANT NoLostWakeup
INVARIANT NoLostInterrupt
PROPERTY ImplementsAbstract
PROPERTY EveryChainCompleted
\* The guest may stop publishing; the event loop then waits in epoll forever.
CHECK_DEADLOCK FALSE
