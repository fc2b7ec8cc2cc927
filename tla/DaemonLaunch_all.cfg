SPECIFICATION FairSpec
CONSTANTS
  p1 = p1
  p2 = p2
  p3 = p3
  d1 = d1
  d2 = d2
  Procs <- MCProcs
  Daemons <- MCDaemons
  None = none
  Restarters <- MCRestarters
  MaxSweeps = 2
  MaxKills = 1
INVARIANTS
  SocketIsTheServers
PROPERTIES
  CallsAndShutdownsEnd
CHECK_DEADLOCK FALSE
