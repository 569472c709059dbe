SPECIFICATION FairSpec
CONSTANTS
  MaxReminders = 2
  Horizon = 4
  Delays <- ShortAndLong
  WaitLimit = 2
  MaxEnds = 1
INVARIANTS AnnouncedOnce
PROPERTIES OnTime CancelledStays DueIsAnnounced
CHECK_DEADLOCK FALSE
