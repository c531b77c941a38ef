SPECIFICATION Spec
CONSTANTS
  NoClaim = NoClaim
  Kinds = {"create_draft", "amend", "cancel"}
  MaxVersion = 3
  MaxFaults = 2
  Msgs = {m1, m2}
  Pollers = {p}
  Requests = {q}
  BatchSize = 2
  MaxAttempts = 2
  LeaseTicks = 1
  RetryTicks = 1
CHECK_DEADLOCK FALSE
SYMMETRY MsgSymmetry
INVARIANTS TypeOK OneRunCanSettle AmendmentFollowsRow  AppliedOncePerVersion
PROPERTIES ClosedRowStaysClosed ClosedOrderStaysClosed 
