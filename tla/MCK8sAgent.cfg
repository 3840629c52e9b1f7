\* Two jobs that may share a destination, one backup by hand and one by
\* schedule, three faults. No symmetry: liveness. It ends when the rows are deleted
\* and the agent has lost its credentials.
CONSTANTS
  Jobs = {j1, j2}
  Dests = {d1}
  NoDest = NoDest
  Snaps = {s1}
  MaxFires = 1
  MaxFaults = 3
SPECIFICATION FairSpec
INVARIANTS
  K8sTypeOK
PROPERTIES
  ManualRunResolves
  ComesBack
CHECK_DEADLOCK FALSE
