SPECIFICATION Spec
CONSTANTS
  NoClaim = NoClaim
  Kinds = {"whatsapp"}
  MaxVersion = 1
  MaxFaults = 1
  Msgs = {m1}
  Pollers = {p}
  Requests = {}
  BatchSize = 2
  MaxAttempts = 2
  LeaseTicks = 1
  RetryTicks = 1
CHECK_DEADLOCK FALSE
INVARIANT NeverResentBlindly

