CONSTANTS
  Null = Null
  a = a
  b = b
  Sources <- MCSources
  MaxMutations = 2
  MaxStack = 3
  MaxTime = 3
SPECIFICATION SourceSpec
INVARIANTS
  TypeOK
  NoTearing
  VersionsResetBetweenRenders
  LastIsMaxPending
