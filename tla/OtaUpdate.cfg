SPECIFICATION Spec
CONSTANTS
  Versions = {1, 2}
  Window = 2
  ProfileByte = 2
  Word = 8
  kSlotBytes = 3
  ChannelTexts = {1, 2, 10}
  SizeTexts = {0, 3, 4, 9}
INVARIANTS
  TypeOK
  OnlyVerifiedRuns
  UnprovenIsOnTrial
PROPERTIES
  UpdateIsSafe
  TrialEndsOnWifi
