SPECIFICATION FairSpec
CONSTANTS
  w1 = w1
  w2 = w2
  Workers = {w1, w2}
  Jobs = {1, 2, 3}
  Capacity = 2
  MaxBatch = 2
  NoJob = NoJob
INVARIANTS TypeOK NoJobSleeps
PROPERTIES ImplementsQueue AcceptedRuns CloseReturns
