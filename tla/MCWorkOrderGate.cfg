SPECIFICATION Spec
CONSTANTS
  Request = {e1, e2, e3}
  Digest = {d}
  None = None
  Gated = TRUE
  Timeout = 0
  TTL = 1
  MaxCancels = 0
  Calls = {"execute_work_order", "run_worker", "work_order_feedback", "cancel_work_order", "create_worker"}
  Ends = {"Completed", "Failed", "Blocked", "TimedOut", "Cancelled"}
SYMMETRY Symmetry
INVARIANTS
  TypeOK
  ReceiptAuthorizesOneRun
  GatedRunsHoldReceipt
PROPERTIES
  WorkOrderOutcomeSticks
