CONSTANTS
  Nil = Nil
  Undef = Undef
  store = store
  promise = promise
  v1 = v1
  v2 = v2
  Sources <- MCSources
  Readable <- MCReadable
  Values <- MCValues
  MaxEvents = 5

SPECIFICATION Spec

INVARIANT
  RenderedValueIsCurrent

CHECK_DEADLOCK FALSE
