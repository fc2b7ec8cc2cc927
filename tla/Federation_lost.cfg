CONSTANTS
  loop = loop
  cli = cli
  Loop = loop
  Syncs <- MCSyncs
  Kinds <- MCReports
  Scenarios <- MCLost
SPECIFICATION Spec
INVARIANTS
  CompletionSettlesTask
CHECK_DEADLOCK FALSE
