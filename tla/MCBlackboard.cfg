SPECIFICATION Spec
CONSTANTS
  Entry = {e1, e2, e3}
  Key = {k1}
  Proposed = {"Fact"}
  Walker = {w1, w2}
  Promoter = {m1}
  Sweeper = {s1}
  None = None
SYMMETRY Symmetry
INVARIANTS
  TypeOK
  NoDependentIsLeft
  SettledRevocationsStay
PROPERTIES
  VersionsFollow
CHECK_DEADLOCK FALSE
