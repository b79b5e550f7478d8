\* Three worker loops, two browsers, one failure at any await, and a shutdown at
\* any moment.
SPECIFICATION FairServiceSpec
CONSTANTS
  Pooled = {b1, b2}
  Clients = {c1, c2, c3}
  MaxPages = 2
  MaxFaults = 1
INVARIANTS NoneLost RecycledInTime PoolOutlivesWorkers
PROPERTIES ZombieRecycled KeepsServing ShutsDown
\* A server that failed to start, or was shut down, is over.
CHECK_DEADLOCK FALSE
