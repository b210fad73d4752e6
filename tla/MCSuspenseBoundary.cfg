CONSTANTS
  Nil = Nil
  p1 = p1
  p2 = p2
  Props <- MCProps
  MaxFibers = 12
  MaxInsts = 4
  MaxStates = 3
  MaxEvents = 3
  UpdateStillTimedOut <- FixedUpdateStillTimedOut
SPECIFICATION FairSpec
INVARIANT TypeOK
INVARIANT MountedMatchesCommittedTree
INVARIANT VisibleMatchesState
INVARIANT WorkInProgressIsTree
PROPERTY CurrentUntouchedByRender
PROPERTY PrimaryNeverRemounted
PROPERTY ImplementsAbstract
PROPERTY RenderFinishes
CHECK_DEADLOCK FALSE
