SPECIFICATION Spec
CONSTANTS
  Lease = {l1}
  Holder = {h1, h2}
  Budget = 3
  NoLease = NoLease
  Run = {r1, r2}
  Intent = {i1}
  None = None
SYMMETRY Symmetry
INVARIANTS
  TypeOK
  LeaseBudgetHolds
  LateUsesAreBounded
  TracesAreBacked
PROPERTIES
  EndedLeasesStayEnded
  ContractsMoveForward
CHECK_DEADLOCK FALSE
