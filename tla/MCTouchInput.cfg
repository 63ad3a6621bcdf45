SPECIFICATION Spec
CONSTANTS
  N = 2
  Debounce = 2
  LongPress = 4
  FactoryHold = 6
  ProgressEvery = 2
  Settle = 4
  Gaps <- MCGaps
  Cap = 6
INVARIANTS
  TypeOK
  PressIsDebounced
  GestureIsFullHold
  StuckPairNeverResets
PROPERTIES
  NothingTwice
  HoldCompletes
