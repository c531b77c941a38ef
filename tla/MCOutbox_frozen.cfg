SPECIFICATION Spec
CONSTANTS
  NoClaim = NoClaim
  Kinds = {"send"}
  MaxVersion = 2
  MaxFaults = 0
  Msgs = {m1}
  Pollers = {p}
  Requests = {}
  BatchSize = 2
  MaxAttempts = 2
  LeaseTicks = 1
  RetryTicks = 1
CHECK_DEADLOCK FALSE
INVARIANT SentOrderIsTheFrozenOne
