CONSTANTS
  Nil = Nil
  Undef = Undef
  store = store
  promise = promise
  v1 = v1
  v2 = v2
  Sources <- MCSources
  Readable <- MCReadable
  Values <- MCValues
  MaxEvents = 5
  GetDerivedStateFromProps <- FixedGetDerivedStateFromProps

SPECIFICATION Spec

INVARIANTS
  TypeOK
  SubscribedExactlyToProps
  RenderedValueIsCurrent

CHECK_DEADLOCK FALSE
