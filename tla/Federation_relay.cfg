CONSTANTS
  loop = loop
  cli = cli
  Loop = loop
  Syncs <- MCSyncs
  Kinds <- MCReports
  Scenarios <- MCScenarios
SPECIFICATION FairSpec
INVARIANTS
  SettledTogether
  LoopPullsAreContiguous
PROPERTIES
  ToHomeIsReliable
  ToWorkerIsReliable
  MailArrives
CHECK_DEADLOCK FALSE
