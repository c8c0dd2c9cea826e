CONSTANTS
  m1 = m1
  m2 = m2
  Modules = {m1, m2}
  Modes = {"asar", "dir", "none"}
  MaxRuns = 2
SYMMETRY Symmetry
SPECIFICATION Spec
INVARIANTS
  LaunchedIsDarwinFree
  UnsafeNeverHidden
  SubstitutionIsReported
  PlanCarriedOut
  AsarKeepsBundle
\* The calls of execute() are bounded by MaxRuns.
CHECK_DEADLOCK FALSE
