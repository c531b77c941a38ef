SPECIFICATION FairSpec
CONSTANTS
  Keys = {k1, k2}
  Supported = {k1}
  Callers = {c1, c2}
  MaxSends = 3
  BreakerThreshold = 3
  LeaseTicks = 2
  RetryTicks = 1
  WindowTicks = 2
  NoCall = NoCall
INVARIANTS TypeOK ReceiptsAreHonest BreakerTrips
PROPERTIES Promised PauseHolds DeliveriesAreDecided
