CONSTANTS
  Orders <- MCOrders
  Worlds <- MCWorlds
  Versions <- MCVersions
  Installable <- MCInstallable
  Outputs <- MCOutputs
  Situations <- MCSituations
  MaxBuilds = 2
SPECIFICATION FairSpec
INVARIANTS
  TypeOK
  SandboxReady
  SandboxIsContained
  EarlyEndsCleanUp
  SuccessNamesBinary
  EntriesAreGoverned
  AnswersAreBest
  RuntimeKeepsMajor
  ProvisionedIsFound
PROPERTIES
  ProvisionAdvances
  ProvisionEnds
\* After the launch, or without an Electron to launch, nothing is left to do.
CHECK_DEADLOCK FALSE
