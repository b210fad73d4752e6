CONSTANT MaxTime = 6
SPECIFICATION Spec
INVARIANT
  FirstIsMinPending
