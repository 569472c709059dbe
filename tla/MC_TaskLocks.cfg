SPECIFICATION Spec
CONSTANTS
  terminal = terminal
  voice = voice
  executor = executor
  Threads = {terminal, voice, executor}
  Nobody = Nobody
  RecordCount = 2
  Calls <- AllCalls
INVARIANTS NobodyWaitsInACircle
