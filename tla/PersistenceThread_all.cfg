CONSTANTS
  MaxSeq = 4
SPECIFICATION FairSpec
INVARIANTS
  EachRequestIsAccountedFor
  DoneMeansFinalState
PROPERTIES
  NewestStateIsSaved
  EveryRequestIsReported
