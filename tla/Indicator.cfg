SPECIFICATION Spec
CONSTANTS
  Provisioning = 30
  Connecting = 10
  Offline = 60
  Slow = 25
  Fast = 5
  Total = 4
  ProgressEvery = 2
  Gaps = {1, 2}
  MaxPreempt = 1
  Round = 60
INVARIANTS
  TypeOK
  LedShowsPattern
  StatusIsTrue
PROPERTY BlinkGoesOn
