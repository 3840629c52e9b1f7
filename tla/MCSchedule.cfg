\* The same agent with one connection and one change, without a failure.
CONSTANTS
  Agents = {a1}
  Sockets = {s1}
  NoAgent = NoAgent
  NoSocket = NoSocket
  MaxFaults = 0
  JobAgent = a1
  MaxChanges = 1
SPECIFICATION Spec
INVARIANTS
  ScheduledIsInstalled
CHECK_DEADLOCK FALSE
