CONSTANTS
  NFiles = 3
  Contents <- MCContents
  MaxCalls = 2
  MaxWrites = 1
SPECIFICATION Spec
INVARIANTS
  TypeOK
  IndexAgrees
  FirstFileWins
  RejectsAreReported
PROPERTY
  VerdictIsFinal
\* The process may end with an exception, and the calls are bounded by MaxCalls.
CHECK_DEADLOCK FALSE
