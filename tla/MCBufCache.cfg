SPECIFICATION Spec
CONSTANTS
  Proc = {p1, p2}
  Buf = {f1, f2, f3}
  Block = {k1, k2, k3, k4}
  Value = {v1, v2}
  None = None
  MaxPins = 2
SYMMETRY Symm
INVARIANTS RefcntExact NoLostWakeup
PROPERTIES Coherent
