SPECIFICATION VoiceSpec
CONSTANTS
  MaxRequests = 2
  MaxFailures = 1
\* The program stops when the service is stopped and the bounds are used up.
CHECK_DEADLOCK FALSE
PROPERTY SwitchKeepsTheRequest
