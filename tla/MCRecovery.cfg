\* Two jobs of one agent, both with a suffix or, with one destination each, both
\* without, two destinations, two backups; any two changes of the configuration,
\* requests and failures. It ends when both rows are deleted.
CONSTANTS
  a1 = a1
  d1 = d1
  d2 = d2
  TableOrder <- LastFirst
  FirstJobs <- OldOrNew
  Agents = {a1}
  NumJobs = 2
  JobAgent <- OneAgent
  Dests = {d1, d2}
  NoDest = NoDest
  Runs = {r1, r2}
  MaxEvents = 2
SPECIFICATION Spec
SYMMETRY RunSymmetry
INVARIANTS
  BrowsableUntilMoved
  FailsForAReason
  VerifyFindsDamage
  RestoresUnlessShared
CHECK_DEADLOCK FALSE
