SPECIFICATION FairSpec
CONSTANTS
  t1 = t1
  d1 = d1
  Tasks = {t1}
  Devices = {d1}
  NoDevice = nodevice
  None = none
  Batch = 2
  MaxFetch = 1
  MaxQueue = 1
  MaxFaults = 2
  MaxCrashes = 0
PROPERTIES
  EventuallyArchived
CHECK_DEADLOCK FALSE
