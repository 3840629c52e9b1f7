\* Two backups over three days; WORM for two days or disabled, locks of one
\* day, retention of the last backup, one reset.
CONSTANTS
  WormChoices = {0, 2}
  LockChoices = {1}
  KeepLast = 1
  MaxId = 2
  MaxDay = 3
  MaxResets = 1
SPECIFICATION Spec
INVARIANTS
PROPERTIES
  WormLockFixed
  LockedRowsStay
  WormBackupsSpareLocked
CHECK_DEADLOCK FALSE
