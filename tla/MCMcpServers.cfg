SPECIFICATION Spec
CONSTANTS
  Caller = {boot, k1, k2}
  Conn = {boot, k1, k2}
  Boot = boot
  None = None
  Config = {c1}
  Ops = {"connect", "disconnect", "delete", "test", "tools", "worker"}
  MaxExpiries = 1
  MaxEvents = 1
INVARIANTS
  TypeOK
  CallsRunOnce
  DisconnectBindsLaterWorkers
PROPERTIES
  CallsReturn
CHECK_DEADLOCK FALSE
