CONSTANTS
  Nil = Nil
  Invalid = Invalid
  Outer = Outer
  Inner = Inner
  div = div
  span = span
  k1 = k1
  p1 = p1
  p2 = p2
  p3 = p3
  p4 = p4
  StatelessTypes <- MCStatelessTypes
  HostTypes <- MCHostTypes
  Keys <- MCKeys
  Props <- MCProps
  Render <- MCRender
  MaxIds = 6
  MaxOps = 4

SPECIFICATION Spec

INVARIANTS
  TypeOK
  TreeMatchesRender
  InstanceMapMatchesMounted
  MountOrderTopDown

CHECK_DEADLOCK FALSE
