CONSTANTS
  p1 = p1
  p2 = p2
  Proc <- Procs
  NPage = 20
  FAN = 2
  PGSIZE = 2
  UINT64 = 64
  USERSTACK = 1
  Programs <- Progs
  Sizes <- SizesUpDown
  Addrs = {0, 3, 5}
  Value = {7}
  MaxCalls = 4
  None = None
SYMMETRY Symmetry
SPECIFICATION Spec
INVARIANTS PagesOwned
PROPERTIES IsAddrSpace
CHECK_DEADLOCK FALSE
