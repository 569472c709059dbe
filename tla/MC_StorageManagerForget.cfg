SPECIFICATION Spec
CONSTANTS
  Paths = {memory, record}
  Drives = {home, stranger}
  None = None
  MaxSaves = 1
  QueueLimit = 1
  MaxFaults = 0
  MaxPlugs = 2
  MaxCrashes = 0
INVARIANT ForgottenIsDeleted
CHECK_DEADLOCK FALSE
