\* One of the lists, as they do not depend on each other; one backup from start to
\* check, three moves of the user, one failure. When all is done, nothing has to
\* happen.
CONSTANTS
  Lists = {"snapshots"}
  Snaps = {s1}
  NoSnap = NoSnap
  MaxEvents = 3
  MaxMoves = 3
  MaxFaults = 1
SPECIFICATION PagesSpec
INVARIANTS
  ShowsWhatItWasTold
  RunningIsLive
PROPERTIES
  AnnouncedIsShown
  UpdateWaitsEnd
CHECK_DEADLOCK FALSE
