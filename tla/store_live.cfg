SPECIFICATION FairSpec
CONSTANTS
  d1 = d1
  d2 = d2
  v0 = v0
  v1 = v1
  v2 = v2
  b1 = b1
  b2 = b2
  b3 = b3
  u1 = u1
  u2 = u2
  c1 = c1
  Ids = {d1, d2}
  Values = {v0, v1, v2}
  Tomb = Tomb
  NoEvent = NoEvent
  NoWal = NoWal
  NoBatch = NoBatch
  NoThread = NoThread
  Proc <- OneProcess
  Updaters = {u1}
  Compactors = {c1}
  Batches = {b2, b3}
  Ops <- MCOps
  BuiltEvents <- MCBuilt
  MaxGen = 4
  MaxSegments = 6
  MaxSlices = 1
  MaxRange = 3
  Faults = {"remove"}
  MaxCrashes = 1
  PowerLoss = FALSE
PROPERTIES CallsReturn WalSettles
