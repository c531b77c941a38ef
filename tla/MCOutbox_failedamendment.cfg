SPECIFICATION Spec
CONSTANTS
  NoClaim = NoClaim
  Kinds = {"amend", "cancel"}
  MaxVersion = 2
  MaxFaults = 0
  Msgs = {m1, m2}
  Pollers = {p}
  Requests = {}
  BatchSize = 2
  MaxAttempts = 2
  LeaseTicks = 1
  RetryTicks = 1
CHECK_DEADLOCK FALSE
INVARIANT FailedAmendmentNeverReachedOdoo

