CONSTANTS
  p1 = p1
  p2 = p2
  NoPid = NoPid
  Pids = {p1, p2}
SPECIFICATION FairSpec
INVARIANTS
  TypeOK
  StopReapsChild
  PidStaysOurs
  NoFrozenApp
  ExitCodeIsChilds
  KillTakesHelpers
PROPERTY
  StopReturns
\* A terminated adapter whose application is gone has nothing left to do.
CHECK_DEADLOCK FALSE
