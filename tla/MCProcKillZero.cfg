SPECIFICATION Spec
CONSTANTS
  Slot = {s0, s1, s2}
  initproc = s0
  NULL = NULL
  Io = Io
  NCPU = 2
  Status = {1}
  KillPids = {0}
  MaxPid = 3
CHECK_DEADLOCK FALSE
INVARIANTS ExitStatusIsOwn
