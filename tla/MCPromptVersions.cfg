SPECIFICATION Spec
CONSTANTS
  Request = {r1, r2}
  Text = {t1, t2}
  Blank = Blank
  MaxVersion = 2
SYMMETRY Symmetry
INVARIANTS
  QuietPublishStands
  SomeVersionStaysPublished
  CurrentIsBacked
CHECK_DEADLOCK FALSE
