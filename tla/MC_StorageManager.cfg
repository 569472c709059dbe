SPECIFICATION FairSpec
CONSTANTS
  Paths = {memory, record}
  Drives = {home, stranger}
  None = None
  MaxSaves = 2
  QueueLimit = 1
  MaxFaults = 1
  MaxPlugs = 2
  MaxCrashes = 1
INVARIANTS Durable ReadsWhatWasSaved
PROPERTIES NoResurrection StrangerRefused QueueDrains
CHECK_DEADLOCK FALSE
