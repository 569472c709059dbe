SPECIFICATION Spec
CONSTANTS
  MaxReminders = 1
  Horizon = 2
  Delays <- ShortAndLong
  WaitLimit = 2
  MaxEnds = 0
INVARIANT CancelledIsSilent
CHECK_DEADLOCK FALSE
