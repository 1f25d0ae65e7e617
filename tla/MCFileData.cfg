CONSTANTS
  p1 = p1
  p2 = p2
  f1 = f1
  f2 = f2
  d1 = d1
  d2 = d2
  d3 = d3
  d4 = d4
  root = root
  Root = root
  Dirent <- Entry
  Args <- Files1
  Proc <- Procs
  File <- Files
  Fd <- Fds
  FdFile <- FdFiles
  NBlock = 8
  BSIZE = 2
  NDIRECT = 1
  NINDIRECT = 2
  MAXOPBLOCKS = 6
  UINT = 16
  Counts = {5}
  MaxCalls = 3
  Fill <- Fills
  None = None
SPECIFICATION Spec
INVARIANTS NoPanic BlocksOwned ReadBack ReadIsExact
CHECK_DEADLOCK FALSE
