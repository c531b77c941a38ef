SPECIFICATION FairSpec
CONSTANTS
  NoClaim = NoClaim
  Kinds = {"send", "whatsapp", "cancel"}
  MaxVersion = 2
  MaxFaults = 1
  Msgs = {m1, m2}
  Pollers = {p}
  Requests = {q}
  BatchSize = 2
  MaxAttempts = 2
  LeaseTicks = 1
  RetryTicks = 1
CHECK_DEADLOCK FALSE
INVARIANTS FactsAreBacked DuplicatesNeedReclaim
 
