SPECIFICATION Spec
CONSTANTS
  Clients = {c1}
  c1 = c1
  MaxCalls = 2
  TimeFrame = 2
  MaxTime = 4
  MaxShift = 1
INVARIANTS
  WindowBoundByAnyClock
