SPECIFICATION Spec
CONSTANTS
  MaxTasks = 3
  MaxSteps = 1
  Plans <- OnePlain
  QueueLimit = 1
  Retained = 1
  MaxFailures = 1
  MaxStops = 0
  MaxRestarts = 1
INVARIANTS OpenTaskIsTracked
PROPERTIES NeverResumed
CHECK_DEADLOCK FALSE
