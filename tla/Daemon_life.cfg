CONSTANTS
  rec = rec
  Record <- OneRecord
  Stops <- UpToTwoStops
  MaxSubmit = 2
  Worker = {w1}
  Maint = maint
  Timeout = 1
  Interval = 1
  SnatPublic = TRUE
SPECIFICATION FairDaemonSpec
CHECK_DEADLOCK FALSE
INVARIANTS KilledInTime PendingOrdered RecordsConserved
PROPERTIES RecordsReach StopEnds
