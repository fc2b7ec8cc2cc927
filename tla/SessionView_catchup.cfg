CONSTANTS
  MaxResize = 0
  Scenarios <- MCCatchup
SPECIFICATION FairSpec
PROPERTIES
  ScreenCatchesUp
CHECK_DEADLOCK FALSE
