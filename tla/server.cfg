SPECIFICATION FairSpec
CONSTANTS
  c1 = c1
  c2 = c2
  Conns = {c1, c2}
  NReactors = 1
  MaxRequests = 2
  SearchMax = 2
  SearchBytes = 1
  WriterMax = 1
  WriterBytes = 3
  MayStop = TRUE
  NoConn = NoConn
INVARIANTS TypeOK CompletionSafe LimitersBalanced WriterHasRoom
PROPERTIES RequestsEnd StopReturns
