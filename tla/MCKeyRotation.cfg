\* Two destinations, one failure, two requests: two rotations that may overlap, or a
\* rotation and a change of the list, a path or the suffix. No symmetry: liveness. With
\* no heartbeats and no requests left, nothing has to happen.
CONSTANTS
  Agents = {a1}
  Sockets = {s1, s2}
  NoAgent = NoAgent
  NoSocket = NoSocket
  MaxFaults = 1
  JobAgent = a1
  NumDests = 2
  MaxRequests = 2
  NoPw = NoPw
SPECIFICATION FairSpec
INVARIANTS
  LastHoldsKey
PROPERTIES
  RepoKeepsAKey
  CommitOpens
  PendingSettles
CHECK_DEADLOCK FALSE
