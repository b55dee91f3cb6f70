SPECIFICATION FairCSSpec
CONSTANTS
  MAX_PROS = 4
  NBORN = 4
  Name <- MCName
  Body = {m1, m2}
  NoBody = none
  Servers = {0, 2}
INVARIANTS
  CSTypeOK
  QueuedSendersBlocked
  SleepingServersReceive
  RecvReturnsMessage
  NoPanic
  FlaggedSleep
PROPERTIES
  ImplementsChannels
  EverySwitchAdvances
  FirstPlaceServed
