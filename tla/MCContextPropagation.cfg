CONSTANTS
  Nil = Nil
  Same = Same
  Default = Default
  v1 = v1
  v2 = v2
  rootC = rootC
  overlayC = overlayC
  Html = Html
  Svg = Svg
  Data <- MCData
  InitialState = v1
  Root = 0
  Tag <- MCTag
  Children <- MCChildren
  HostType <- MCHostType
  ContainerInfo <- MCContainerInfo
  ContainerNs <- MCContainerNs
  MaxEvents = 4

SPECIFICATION Spec

INVARIANTS
  TypeOK
  ReadersSeeNearestAncestor

CHECK_DEADLOCK FALSE
