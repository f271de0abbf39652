SPECIFICATION FairSpec
CONSTANTS
  NCalls = 2
  Items <- MCItems
  MaxOps = 2
  MaxBatch = 2
  MaxGen = 3
  MaxOthers = 1
  MaxDelta = 1
  w1 = w1
  Workers = {w1}
  RequestLimit <- MCRequestLimit
  IngestLimit <- MCIngestLimit
INVARIANTS TypeOK RefsExact OneGeneration AppliedOnce ReadYourWrites
PROPERTIES CatchesUp AnnCatchesUp
