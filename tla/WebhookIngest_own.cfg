SPECIFICATION Spec
CONSTANTS
  Deliveries = {d1, d2}
  Requests = {r1}
  MaxSends = 1
  MaxFaults = 0
INVARIANT OwnEventsIgnored
CHECK_DEADLOCK FALSE
