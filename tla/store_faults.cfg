SPECIFICATION Spec
CONSTANTS
  d1 = d1
  d2 = d2
  v0 = v0
  v1 = v1
  v2 = v2
  b1 = b1
  b2 = b2
  b3 = b3
  u1 = u1
  u2 = u2
  c1 = c1
  Ids = {d1, d2}
  Values = {v0, v1, v2}
  Tomb = Tomb
  NoEvent = NoEvent
  NoWal = NoWal
  NoBatch = NoBatch
  NoThread = NoThread
  Proc <- CoreAndUpdate
  Updaters = {u2}
  Compactors = {c1}
  Batches = {b1, b2}
  Ops <- MCOps
  BuiltEvents <- MCBuilt
  MaxGen = 4
  MaxSegments = 3
  MaxSlices = 1
  MaxRange = 3
  Faults = {"io", "wal_sync", "manifest_sync", "status_sync", "wal_unlink"}
  MaxCrashes = 0
  PowerLoss = FALSE
INVARIANTS AtMostOnce IndexReflectsLog
