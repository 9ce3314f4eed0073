SPECIFICATION FairSpec
CONSTANTS
  Deliveries = {d1, d2}
  Requests = {r1, r2}
  MaxSends = 2
  MaxFaults = 2
INVARIANT EnqueuedOnce
INVARIANT AcceptedIsEnqueued
PROPERTY EventuallyEnqueued
PROPERTY EventuallyRegistered
CHECK_DEADLOCK FALSE
