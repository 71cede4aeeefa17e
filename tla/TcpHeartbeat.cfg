CONSTANTS
  Interval = 5
  Timeout = 3
  Delays = {4, 5}
SPECIFICATION Spec
INVARIANTS
  HonestPeerKept
  DrainReachesOwner
PROPERTIES
  FailsOnTime
  SampledUnderTraffic
CHECK_DEADLOCK FALSE
