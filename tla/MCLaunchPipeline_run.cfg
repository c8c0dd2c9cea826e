SPECIFICATION Spec
CONSTANTS
  Apps <- MCApps
  Matches <- MCMatches
  Disks <- MCDisks
  Settings <- MCSettings
  MaxChanges = 1
INVARIANTS
  ExitTellsTheTruth
  LaunchIsJustified
  DecisionIsRight
  VmIsAnnounced
  RisksReachTheApp
\* The run ends.
CHECK_DEADLOCK FALSE
