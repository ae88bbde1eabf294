SPECIFICATION FairSpec
CONSTANTS
  a = a
  b = b
  a1 = a1
  a2 = a2
  b1 = b1
  None = none
  Platforms <- TwoPlatforms
  Homes <- TwoHomes
  N = 2
  MaxFaults = 2
INVARIANTS
  TypeOK
  ServedOnce
  ListedIsServed
  ProgressIsOwn
PROPERTIES
  StaysIsServed
