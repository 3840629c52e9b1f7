\* Two agents, three connections, three failures: an agent can have two stale
\* connections while the other agent connects. No symmetry: liveness.
CONSTANTS
  Agents = {a1, a2}
  Sockets = {s1, s2, s3}
  NoAgent = NoAgent
  NoSocket = NoSocket
  MaxFaults = 3
SPECIFICATION FairLinkSpec
INVARIANTS
  LinkTypeOK
  RegistryConsistent
  ReachableNotOffline
PROPERTIES
  AgentsComeBack
