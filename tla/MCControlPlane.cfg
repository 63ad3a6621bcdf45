SPECIFICATION Spec
CONSTANTS
  N = 2
  QueueDepth = 2
  Command <- MCCommand
  FlashMayFail = TRUE
INVARIANTS
  TypeOK
  PowerCutIsAtomic
  FactoryResetForgets
PROPERTIES
  TouchNotStarved
  ResetHappens
  SwitchSpec
