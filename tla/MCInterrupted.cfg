SPECIFICATION TrapsSpec
CONSTANTS
  MAX_PROS = 2
  NBORN = 2
  Name <- MCName
  Body = {m1}
  NoBody = none
  Servers = {1}
  Interruptible <- Everywhere
INVARIANT
  SendDelivers
