SPECIFICATION Spec
CONSTANTS
  t1 = t1
  t2 = t2
  d1 = d1
  Tasks = {t1, t2}
  Devices = {d1}
  NoDevice = nodevice
  None = none
  Batch = 1
  MaxFetch = 1
  MaxQueue = 1
  MaxFaults = 1
  MaxCrashes = 0
SYMMETRY Symmetry
INVARIANTS
  TypeOK
  SentIsMarked
  Recorded
  TotalIsFinal
PROPERTIES
  ToldAfterArchive
  FollowsLifecycle
CHECK_DEADLOCK FALSE
VIEW NoHistory
