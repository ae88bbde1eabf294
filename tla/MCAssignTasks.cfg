SPECIFICATION FairSpec
CONSTANTS
  t1 = t1
  t2 = t2
  t3 = t3
  d1 = d1
  d2 = d2
  Tasks = {t1, t2, t3}
  Devices = {d1, d2}
  NoDevice = nodevice
INVARIANTS
  TypeOK
  DividesOnlyAfterMove
  CleanReturnAssignsAll
  NeverOverloads
PROPERTIES
  PassesEnd
