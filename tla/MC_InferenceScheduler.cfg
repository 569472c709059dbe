SPECIFICATION FairSpec
CONSTANTS
  Clients = {terminal, voice, speech}
  Terminal = {terminal}
  Priorities <- MCPriorities
  MaxRequests = 4
  NoTicket = NoTicket
INVARIANTS OneOperation NoLostWakeup
PROPERTIES Implements WaiterIsServed
CHECK_DEADLOCK FALSE
