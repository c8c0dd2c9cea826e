CONSTANTS
  w1 = w1
  w2 = w2
  l1 = l1
  e1 = e1
  NoFile = NoFile
  Partial = Partial
  Nobody = Nobody
  Provisioners = {w1, w2}
  Launches = {l1}
  Evictors = {}
  Faults = {}
SPECIFICATION Spec
INVARIANT
  StagedIsComplete
\* Every process of an instance ends.
CHECK_DEADLOCK FALSE
