SPECIFICATION Spec
CONSTANTS
  None = None
  Example = Example
  Damaged = Damaged
  Consoles = {k1, k2}
  Items = {i1, i2}
  MaxLen = 2
SYMMETRY Symmetry
INVARIANT NeverDiverges
