SPECIFICATION Spec
CONSTANTS
  Approval = {a1, a2, a3}
  Timeout = 2
SYMMETRY Symmetry
INVARIANTS
  TypeOK
  MissedRequestsAreNeverSpent
PROPERTIES
  DecisionsAreFinal
