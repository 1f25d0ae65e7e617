SPECIFICATION Spec
CONSTANTS
  p1 = p1
  p2 = p2
  p3 = p3
  b1 = b1
  b2 = b2
  b3 = b3
  v1 = v1
  v2 = v2
  Proc = {p1, p2, p3}
  Buf = {b1, b2, b3}
  Value = {v1, v2}
  NUM = 8
  UINT16 = 16
  Served = 14
  MaxReq = 3
  None = None
INVARIANTS ChainsExact NoLostWakeup
PROPERTIES IsDisk
CHECK_DEADLOCK FALSE
SYMMETRY Symmetry
