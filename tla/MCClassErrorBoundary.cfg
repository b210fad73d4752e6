CONSTANTS
  Nil = Nil
  r1 = r1
  r2 = r2
  Refs <- MCRefs
  MaxInsts = 3
  MaxEvents = 3

SPECIFICATION Spec

INVARIANTS
  TypeOK
  MountedMatchesCommitted
  RefAttachedToCommitted

PROPERTIES
  ThrownInstancesUnmounted
  CaughtErrorShowsFallback

CHECK_DEADLOCK FALSE
