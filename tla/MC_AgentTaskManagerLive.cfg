SPECIFICATION FairSpec
CONSTANTS
  MaxTasks = 2
  MaxSteps = 1
  Plans <- OneStep
  QueueLimit = 1
  Retained = 1
  MaxFailures = 0
  MaxStops = 1
  MaxRestarts = 0
PROPERTIES TaskSettles WorkerStops
CHECK_DEADLOCK FALSE
