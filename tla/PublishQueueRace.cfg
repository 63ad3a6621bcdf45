SPECIFICATION Spec
CONSTANTS
  Item = {a, b, c}
  Nothing = Nothing
  Capacity = 3
INVARIANT NoChangeVanishes
