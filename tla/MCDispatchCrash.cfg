SPECIFICATION Spec
CONSTANTS
  t1 = t1
  d1 = d1
  d2 = d2
  Tasks = {t1}
  Devices = {d1, d2}
  NoDevice = nodevice
  None = none
  Batch = 2
  MaxFetch = 1
  MaxQueue = 1
  MaxFaults = 1
  MaxCrashes = 1
SYMMETRY Symmetry
INVARIANTS
  AssignedHasDevice
  MapAgreesWithTable
  NoFinishedLeft
  OneDeviceUnlessTimedOut
PROPERTIES
  LostInDeletion
CHECK_DEADLOCK FALSE
