SPECIFICATION FairSpec
CONSTANTS
  Slot = {s0, s1, s2}
  initproc = s0
  NULL = NULL
  Io = Io
  NCPU = 3
  Status = {1}
  KillPids = {2}
  MaxPid = 3
CHECK_DEADLOCK FALSE
INVARIANTS ParentCanWait
PROPERTIES OrphanIsReaped KillTakesEffect
