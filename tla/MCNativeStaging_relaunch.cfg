CONSTANTS
  m1 = m1
  m2 = m2
  Modules = {m1, m2}
  Modes = {"dir"}
  MaxRuns = 2
SYMMETRY Symmetry
SPECIFICATION Spec
PROPERTY
  CachedGetsStaged
\* The calls of execute() are bounded by MaxRuns.
CHECK_DEADLOCK FALSE
