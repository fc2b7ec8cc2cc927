SPECIFICATION FairSpec
CONSTANTS
  c1 = c1
  c2 = c2
  ok = ok
  sig = sig
  Callers <- MCCallers
  RawWaiters <- MCRawWaiters
  Codes <- MCCodes
  Reader = reader
  Owner = owner
  NoThread = nothread
  NoCode = nocode
  MaxCalls = 2
INVARIANTS
  NoSignalAfterReap
  LifecycleHolderNeverParks
  NobodyParksOnALiveChild
  NoZombieLeft
PROPERTIES
  AnswersAreStable
  KillReturns
  ReapingCompletes
