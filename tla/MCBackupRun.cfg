\* One agent, one job; a manual and a scheduled backup, one destination, one
\* failure; connections also die of server errors. Heartbeats are left out and
\* requests bounded: when all is done, nothing has to happen. No symmetry, as
\* liveness is checked.
CONSTANTS
  a1 = a1
  a2 = a2
  j1 = j1
  j2 = j2
  Agents = {a1}
  Sockets = {s1, s2}
  NoAgent = NoAgent
  NoSocket = NoSocket
  MaxFaults = 1
  Jobs = {j1}
  NoJob = NoJob
  JobAgent <- OneAgent
  ScheduledJobs = {j1}
  ManualIds = {m1}
  MaxMs = 1
  NumDests = 1
SPECIFICATION FairSpec
INVARIANTS
  TypeOK
  OutcomeHasRow
  FailedCheckNotSuccess
PROPERTIES
  ImplementsLifecycle
  RunResolves
CHECK_DEADLOCK FALSE
