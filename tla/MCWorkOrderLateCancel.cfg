SPECIFICATION Spec
CONSTANTS
  Request = {e1, e2}
  Digest = {d}
  None = None
  Gated = FALSE
  Timeout = 0
  TTL = 1
  MaxCancels = 1
  Calls = {"execute_work_order"}
  Ends = {"Completed", "Cancelled"}
SYMMETRY Symmetry
PROPERTIES
  LateCancelIsIgnored
