SPECIFICATION FairSpec
CONSTANTS
  Cpu = {c1, c2}
  NPROC = 3
  None = None
INVARIANTS NoPanic OneStackOneHart InterruptsRestored
PROPERTIES RunnableRuns
