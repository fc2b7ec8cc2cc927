CONSTANTS
  loop = loop
  cli = cli
  Loop = loop
  Syncs <- MCSyncs
  Kinds <- MCReports
  Scenarios <- MCStuck
SPECIFICATION Spec
INVARIANTS
  NextPullIsContiguous
