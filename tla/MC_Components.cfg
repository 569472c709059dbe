SPECIFICATION ComponentsSpec
CONSTANTS
  MaxPlans = 2 MaxTasks = 2 MaxTurns = 3 AgentHorizon = 2 MaxRestarts = 1
  ConfirmWindow = 1 ChoiceWindow = 2
  MaxRequests = 2 MaxFailures = 1
  MaxSessions = 2 MaxCues = 1 MaxInterruptions = 1
  ChunkBudget <- OneThenTwo CloudReplies = {2} QueueSize = 1
  Publishers = {a, b} Published = {"sleeping", "speech_started", "speech_ended"} PendingSize = 1
  MaxPublications = 2 MaxLinkFailures = 1 MaxTabletEvents = 1
  FaceExpressions = {"idle", "listening", "speaking", "sleeping", "happy"}
  MaxReports = 4 MaxTicks = 3
  Facts = {"hobby", "mood", "key"} Secrets = {"key"} Passing = {"mood"} MaxMemories = 2 MaxDriveChanges = 2 MaxStops = 1
  ReplyLength = 2 ReadyTurnLimit = 1 ContinuousTurnLimit = 2 CharacterLimit = 4
  NoteSizes = {1, 3, 5} MaxPrompts = 2 MaxNotes = 2 MaxModeChanges = 2
  MaxIssues = 3 MaxExpiries = 1 MaxCommands = 1 DevicePolls = 1
  NativeRates = {1, 2, 3} TargetRate = 2 FrameSizes = {1, 3} QueueFrames = 2
  MaximumSamples = 2 MaxSamples = 7 MaxMutes = 1
  MaxLevel = 2 Levels = {0, 2} Deltas <- DownAndUp MaxSteps = 2 MaxTouches = 1
  MaximumPending = 2 MaxRecords = 4 MaxSignals = 2 MaxLines = 1
  Sayings <- SomeSayings Deeds <- SomeDeeds ContextSize = 2 ContextTtl = 1
  PreparedLimit = 1 MaxPlanSteps = 2 MaxHeard = 3 MaxAchieved = 2 PlannerHorizon = 2
INVARIANTS
  TypesOK
  OneRunPerConsent RepeatsASuccess RequestsTakeTurns NothingIsLeftUnsaid
  InterruptionReaches ResynchronisedFace FaceComesToRest PresenceIsTrue
  OnlyTheConfirmedIsForgotten HistoryIsWhatWasSaid OnceAndStillSignedIn OneTimeline
  RestoredAsBefore RecordsAreKept NewestIsMeant
\* Every component may have nothing left to do: its bounds are reached.
CHECK_DEADLOCK FALSE
