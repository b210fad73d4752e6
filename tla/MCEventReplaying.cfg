CONSTANTS
  Nil = Nil
  root = root
  boundary = boundary
  focus = focus
  pointer = pointer
  Containers <- MCContainers
  ContSlots <- MCContSlots
  MaxEvents = 4
SPECIFICATION Spec
INVARIANT TypeOK
INVARIANT DiscreteInOrder
INVARIANT BlockedOnDehydrated
INVARIANT UnblockedHasCallback
PROPERTY DiscreteEventuallyDispatched
PROPERTY ContinuousEventuallyCleared
CHECK_DEADLOCK FALSE
