CONSTANTS
  p3 = p3
  p5 = p5
  p31 = p31
  p53 = p53
  p59 = p59
  NoCurve = NoCurve
  Curves <- MCCurves
  Order <- MCOrder
  Recognized <- MCRecognized

SPECIFICATION Spec

INVARIANTS
  TypeOK
  OnlyLowSignatures

\* Sign ends when it returns.
CHECK_DEADLOCK FALSE
