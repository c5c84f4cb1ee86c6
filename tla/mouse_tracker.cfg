SPECIFICATION Spec
CONSTANTS
  f1 = f1
  f2 = f2
  f3 = f3
  m1 = m1
  Fingers = {f1, f2, f3}
  Mouse = m1
  MaxDrift = 3
INVARIANTS
  ContactsAreCounted
  ListensWhileCaptured
PROPERTIES
  TouchStartsClean
CHECK_DEADLOCK FALSE
SYMMETRY FingersAlike
