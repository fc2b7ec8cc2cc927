SPECIFICATION FairSpec
CONSTANTS
  c1 = c1
  c2 = c2
  Clients <- MCClients
  Code = code
  NoCode = nocode
  MaxChunks = 3
  HistoryLimit = 2
  QueueLimit = 1
INVARIANTS
  NoSilentHole
  ExitIsCompleteAndTrue
  HistoryIsNotAnsweredAgain
  RepeatsOnlyInTheWindow
PROPERTIES
  StreamsEnd
