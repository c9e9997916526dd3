SPECIFICATION Spec
CONSTANTS
  Callers = {c1, c2, c3, c4}
  MaxTarget = 3
SYMMETRY Symmetry
INVARIANTS I1 I2 I3 NoPanic
PROPERTY ClosedRefuses
