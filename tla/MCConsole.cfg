SPECIFICATION FairSpec
CONSTANTS
  p1 = p1
  p2 = p2
  x = x
  Proc <- Procs
  Text <- Chars
  Ignored = {nul}
  NL = nl
  CR = cr
  EOF = eof
  ERASE = erase
  KILL = kill
  INPUT_BUF_SIZE = 2
  UINT = 4
  CHUNK = 1
  Counts = {2}
  MaxRx = 1
  Workload <- Workloads
  None = None
CHECK_DEADLOCK FALSE
INVARIANTS NoByteLost
PROPERTIES IsLineInput WaitersServed
