SPECIFICATION Spec
CONSTANTS
  a = a
  b = b
  Item <- MCItem
  Nothing = Nothing
  Capacity = 3
INVARIANTS
  TypeOK
PROPERTIES
  FifoSpec
