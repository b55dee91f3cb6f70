SPECIFICATION TrapsSpec
CONSTANTS
  MAX_PROS = 3
  NBORN = 3
  Name <- MCName
  Body = {m1, m2}
  NoBody = none
  Servers = {1}
  Interruptible <- Everywhere
INVARIANT
  SenderIsFound
PROPERTY
  OtherChannelsKept
