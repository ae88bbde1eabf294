SPECIFICATION FairSpec
CONSTANTS
  MaxRows = 2
  MaxOffs = 3
  MaxStops = 1
  MaxLost = 1
INVARIANTS
  TypeOK
  Exclusive
  RowsStay
PROPERTIES
  MasterTakesBack
  SlaveTakesOver
