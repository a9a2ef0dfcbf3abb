SPECIFICATION Spec
CONSTANTS
  Clients = {c1, c2}
  c1 = c1
  c2 = c2
  MaxCalls = 2
  TimeFrame = 2
  MaxTime = 3
  MaxShift = 1
SYMMETRY Symmetry
INVARIANTS
  TypeOK
  WindowBound
  RejectionsJustified
