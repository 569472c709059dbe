SPECIFICATION Spec
CONSTANTS
  MaxTasks = 2
  MaxSteps = 3
  Plans <- ThreeSteps
  QueueLimit = 1
  Retained = 1
  MaxFailures = 0
  MaxStops = 0
  MaxRestarts = 1
INVARIANTS CancelKeepsPromise JournalAhead OutcomeJournalled OutcomeAnnouncedOnce
PROPERTIES Implements RolledBack ClosedIsFinal
CHECK_DEADLOCK FALSE
