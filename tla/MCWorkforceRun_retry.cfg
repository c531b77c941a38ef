SPECIFICATION FairSpec
CONSTANTS
  approve = approve
  act = act
  wait = wait
  more = more
  Nodes = {approve, act, wait, more}
  Keys = {act, more}
  Approvals = {approve}
  Waits = {wait}
  Timed = {wait}
  Roots = {approve}
  Succ <- Edges
  Users = {manager}
  Says <- Alone
  manager = manager
  director = director
  RunModes = {"supervised"}
  MaxActivity = 2
  MaxFaults = 1
  MaxActionAttempts = 2
  NoNode = NoNode
  NoAsk = NoAsk
CHECK_DEADLOCK FALSE
PROPERTY FailedSendIsRetried
