SPECIFICATION Spec
CONSTANTS
  RingSlots = 3
  BootIds = 3
  Uptimes = 2
  ProfileBytes = {2, 9}
  MaxEvents = 5
  MaxFaults = 1
INVARIANTS
  TypeOK
  OnlyNewestAtRisk
  KeysOrderEvents
  LogTellsRelay
PROPERTY JournalSpec
CHECK_DEADLOCK FALSE
