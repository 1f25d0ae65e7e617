SPECIFICATION FairSpec
CONSTANTS
  Reader = {r1}
  Writer = {w1, w2}
  Byte = {x, y}
  PIPESIZE = 2
  UINT = 4
  Counts = {2}
  Killable = {r1, w1}
  MaxKilled = 1
  None = None
CHECK_DEADLOCK FALSE
INVARIANTS NoLostWakeup
PROPERTIES IsFifo ZeroIsEndOfFile ClosedEndReturns
