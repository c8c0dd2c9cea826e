CONSTANTS
  p1 = p1
  p2 = p2
  NoPid = NoPid
  Pids = {p1}
SPECIFICATION FairSpec
PROPERTY
  StopAlwaysReturns
\* A terminated adapter whose application is gone has nothing left to do.
CHECK_DEADLOCK FALSE
