SPECIFICATION Spec
CONSTANTS
  MaxTasks = 1
  MaxSteps = 2
  Plans <- TwoSteps
  QueueLimit = 1
  Retained = 1
  MaxFailures = 0
  MaxStops = 0
  MaxRestarts = 0
INVARIANTS CancelledIsRolledBack
CHECK_DEADLOCK FALSE
