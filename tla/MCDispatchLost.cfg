SPECIFICATION Spec
CONSTANTS
  t1 = t1
  d1 = d1
  Tasks = {t1}
  Devices = {d1}
  NoDevice = nodevice
  None = none
  Batch = 2
  MaxFetch = 1
  MaxQueue = 1
  MaxFaults = 0
  MaxCrashes = 1
SYMMETRY Symmetry
INVARIANTS
  Recorded
CHECK_DEADLOCK FALSE
