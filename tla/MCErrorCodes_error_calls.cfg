CONSTANTS
  Nil = Nil
  m1 = m1
  m2 = m2
  Messages <- MCMessages
  MaxEdits = 0
SPECIFICATION Spec
INVARIANT
  ExtractedErrorsMinified
