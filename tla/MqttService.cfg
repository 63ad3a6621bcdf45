SPECIFICATION Spec
CONSTANTS
  Channels = 2
  IdValues = 3
  Numbers = {0, 3}
  QueueDepth = 2
  CommandDepth = 2
  BaseDelay = 1
  MaxDelay = 2
  JitterPct = 50
  MaxChanges = 2
INVARIANTS
  TypeOK
  RetainedIsLatest
  OnlineIsTrue
  CloudIsObeyed
PROPERTIES
  RetainedNeverGoesBack
  CatchesUp
