CONSTANTS
  p1 = p1
  p2 = p2
  Proc <- Procs
  Inum <- Inums
  Name <- Names
  Workload <- Workloads
  NINODE = 4
  NLINK_MAX = 2
  None = None
SPECIFICATION Spec
INVARIANTS RefsExact LinkCountsExact RefKeepsInode NoLeak CallsGoOn
SYMMETRY Symmetry
CHECK_DEADLOCK FALSE
