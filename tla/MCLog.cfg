SPECIFICATION FairSpec
CONSTANTS
  Proc = {p1, p2}
  Block = {b1, b2}
  Value = {v1, v2}
  NotCached = NotCached
  MAXOPBLOCKS = 2
  LOGBLOCKS = 4
  OpBlocks = 1
  MaxOps = 2
INVARIANTS NoPanic SyncDurable
PROPERTIES AtomicCommit CallsReturn
