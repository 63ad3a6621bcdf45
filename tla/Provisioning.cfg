SPECIFICATION Spec
CONSTANTS
  Network = {home, office}
  NoValue = NoValue
  Wrong = Wrong
  Cut = Cut
  MaxFaults = 1
  MaxIdentities = 2
INVARIANTS
  TypeOK
  ApNeverWithSta
  FlashIsWhole
PROPERTIES
  IsCommissioning
  ResetForgets
  WayIn
