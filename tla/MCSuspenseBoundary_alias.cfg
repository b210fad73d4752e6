CONSTANTS
  Nil = Nil
  p1 = p1
  p2 = p2
  Props <- MCProps
  MaxFibers = 12
  MaxInsts = 4
  MaxStates = 3
  MaxEvents = 3
SPECIFICATION Spec
INVARIANT WorkInProgressIsTree
CHECK_DEADLOCK FALSE
