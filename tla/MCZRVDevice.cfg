SPECIFICATION FairSpec
CONSTANTS
  d1 = d1
  d2 = d2
  Devices = {d1, d2}
  N = 1
  F = 2
  E = 1
  None = none
  MaxFaults = 1
INVARIANTS
  TypeOK
  ConnectedHasSlot
  OnlineIsOwn
PROPERTIES
  StrayEnds
  ComesBack
  GoneIsOffline
