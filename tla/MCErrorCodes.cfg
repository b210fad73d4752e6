CONSTANTS
  Nil = Nil
  m1 = m1
  m2 = m2
  Messages <- MCMessages
  MaxEdits = 2
SPECIFICATION Spec
INVARIANTS
  TypeOK
  ExtractedInvariantsMinified
PROPERTIES
  ExtractMatchesReference
