SPECIFICATION Spec
CONSTANTS
  Request = {e1, e2, e3, e4}
  Digest = {d}
  None = None
  Gated = TRUE
  Timeout = 0
  TTL = 1
  MaxCancels = 0
  Calls = {"execute_work_order"}
  Ends = {"Completed"}
SYMMETRY Symmetry
PROPERTIES
  BareReceiptIsRejected
