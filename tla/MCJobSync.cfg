\* One agent, three changes, two failures. No symmetry: liveness. Heartbeats are
\* left out: when all is done, nothing has to happen.
CONSTANTS
  Agents = {a1}
  Sockets = {s1, s2}
  NoAgent = NoAgent
  NoSocket = NoSocket
  MaxFaults = 2
  JobAgent = a1
  MaxChanges = 3
SPECIFICATION FairSpec
INVARIANTS
  SettledIsCurrent
PROPERTIES
  PushTakesEffect
CHECK_DEADLOCK FALSE
