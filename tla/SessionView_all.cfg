CONSTANTS
  MaxResize = 3
  Scenarios <- MCScenarios
SPECIFICATION FairSpec
INVARIANTS
  GuardHasItsWorker
  CopiesWhatWasAsked
  LastCopyWins
PROPERTIES
  ScreenNeverGoesBack
  LastArcIsTheReapers
  LastSizeWins
  ScreenSettles
  ClosedIsReaped
CHECK_DEADLOCK FALSE
